---------------------------- MODULE Spec2Model ----------------------------
(***************************************************************************)
(* A model of UncertainSCI's composite-measure recurrence code:            *)
(*   src/UncertainSCI/composite.py   (compute_subintervals, Composite)     *)
(*   src/opoly1d.py                  (OrthogonalPolynomialBasis1D, ...)    *)
(*                                                                         *)
(* Real numbers are modelled on an integer grid.  One grid unit is half   *)
(* of the tolerance 1e-8 of compute_subintervals, so that Tol == 2 and    *)
(* two locations can be strictly closer than the tolerance without being  *)
(* equal.  Comparisons are the exact comparisons of the code.             *)
(***************************************************************************)
EXTENDS Integers, Sequences, FiniteSets, TLC

VARIABLES
    pc,                 \* position of the call under study
    a,                  \* compute_subintervals: left end of the interval
    b,                  \* compute_subintervals: right end of the interval
    singularity_list,   \* compute_subintervals: the argument list
    subintervals,       \* compute_subintervals: the outcome (table or error)
    family,             \* the class of the polynomial family instance
    self_ab,            \* the instance's stored recurrence table, self.ab
    driver_calls,       \* how many times recurrence_driver was invoked
    arg,                \* the arguments of the latest call on the instance
    ret,                \* the outcome of the latest call on the instance
    heap                \* the arrays of the caller, by object identity

subVars == <<a, b, singularity_list, subintervals>>
famVars == <<family, self_ab, driver_calls, arg, ret>>

vars == <<pc, subVars, famVars, heap>>

---------------------------------------------------------------------------
(* Generic sequence helpers *)

Abs(x) == IF x < 0 THEN -x ELSE x

Range(s) == {s[i] : i \in DOMAIN s}

\* The subsequence of s at the positions idx[1], idx[2], ... (numpy s[idx]).
Take(s, idx) == [i \in 1..Len(idx) |-> s[idx[i]]]

\* All sequences over S of length at most n.
SeqsUpTo(S, n) == UNION {[1..k -> S] : k \in 0..n}

---------------------------------------------------------------------------
(* compute_subintervals, composite.py lines 9-72 *)

\* tol = 1e-8, in grid units.
Tol == 2

\* Bounds of the model of compute_subintervals.
MaxLoc == 14
MaxSing == 3

\* entry[0], entry[1], entry[2] of a singularity descriptor.
Location(entry) == entry[1]
StrengthLeft(entry) == entry[2]
StrengthRight(entry) == entry[3]

\* lines 23-26: the positions that lie to the left of a or to the right of b.
DiscardMissingRight(lo, hi, s) == {ind \in DOMAIN s : s[ind] < lo - Tol}

Discard(lo, hi, s) == {ind \in DOMAIN s : s[ind] < lo - Tol \/ s[ind] > hi + Tol}

\* np.delete(s, discard): s without the positions in discard, order kept.
RECURSIVE KeepIndices(_, _, _)
KeepIndices(n, discard, i) ==
    IF i > n THEN <<>>
    ELSE IF i \in discard THEN KeepIndices(n, discard, i + 1)
    ELSE <<i>> \o KeepIndices(n, discard, i + 1)

Delete(s, discard) == Take(s, KeepIndices(Len(s), discard, 1))

\* np.argsort(s): the positions of s in increasing order of value.  Equal
\* values keep their order; the order numpy gives to equal values does not
\* reach the outcome, since equal locations raise the error of line 40.
RECURSIVE InsertIndex(_, _, _)
InsertIndex(s, order, i) ==
    IF order = <<>> THEN <<i>>
    ELSE IF s[i] < s[Head(order)] THEN <<i>> \o order
    ELSE <<Head(order)>> \o InsertIndex(s, Tail(order), i)

RECURSIVE ArgsortFrom(_, _)
ArgsortFrom(s, i) ==
    IF i > Len(s) THEN <<>>
    ELSE InsertIndex(s, ArgsortFrom(s, i + 1), i)

Argsort(s) == ArgsortFrom(s, 1)

\* line 39: np.any(np.diff(singularities) < tol), on the sorted locations.
OverlappingFirstPairOnly(s) == Len(s) >= 2 /\ s[2] - s[1] < Tol

Overlapping(s) == \E i \in 1..(Len(s) - 1) : s[i + 1] - s[i] < Tol

\* lines 47-58: the three arrays after the interval endpoints are added.
\* The result is <<singularities, strength_left, strength_right>>.
Extend(lo, hi, s, sl, sr) ==
    LET a_sing == Abs(s[1] - lo) <= Tol
        b_sing == Abs(s[Len(s)] - hi) <= Tol
        s1  == IF b_sing THEN s  ELSE s  \o <<hi>>
        sl1 == IF b_sing THEN sl ELSE sl \o <<0>>
        sr1 == IF b_sing THEN sr ELSE sr \o <<0>>
        s2  == IF a_sing THEN s1  ELSE <<lo>> \o s1
        sl2 == IF a_sing THEN sl1 ELSE <<0>> \o sl1
        sr2 == IF a_sing THEN sr1 ELSE <<0>> \o sr1
    IN  <<s2, sl2, sr2>>

\* lines 62-65: one row per pair of consecutive entries.
RowsFacingNeighbour(s, sl, sr) ==
    [q \in 1..(Len(s) - 1) |-> <<s[q], s[q + 1], sl[q], sr[q + 1]>>]

Rows(s, sl, sr) ==
    [q \in 1..(Len(s) - 1) |-> <<s[q], s[q + 1], sr[q], sl[q + 1]>>]

\* The call as a whole: the table returned, or the ValueError raised.
compute_subintervals(lo, hi, list) ==
    LET singularities0  == [i \in DOMAIN list |-> Location(list[i])]
        strength_left0  == [i \in DOMAIN list |-> StrengthLeft(list[i])]
        strength_right0 == [i \in DOMAIN list |-> StrengthRight(list[i])]
        discard == Discard(lo, hi, singularities0)
        singularities1  == Delete(singularities0, discard)
        strength_left1  == Delete(strength_left0, discard)
        strength_right1 == Delete(strength_right0, discard)
        order == Argsort(singularities1)
        singularities  == Take(singularities1, order)
        strength_left  == Take(strength_left1, order)
        strength_right == Take(strength_right1, order)
    IN  IF Overlapping(singularities)
        THEN [kind |-> "ValueError", rows |-> <<>>]
        ELSE IF Len(singularities) > 0
        THEN LET ext == Extend(lo, hi, singularities, strength_left, strength_right)
             IN  [kind |-> "table", rows |-> Rows(ext[1], ext[2], ext[3])]
        ELSE [kind |-> "table", rows |-> << <<lo, hi, 0, 0>> >>]

\* The arguments of the calls that are explored.  The interval starts at
\* Lo, far enough from 0 for locations below Lo - Tol to exist, and ends
\* far enough from MaxLoc for locations above b + Tol to exist.  The i-th
\* descriptor of a list carries the strengths (2i-1, 2i), so that every
\* strength of a table names the descriptor and the side it was read from.
Lo == Tol + 1

Intervals == {<<Lo, hi>> : hi \in (Lo + 1)..(MaxLoc - Tol - 1)}

SingularityLists ==
    {[i \in DOMAIN locs |-> <<locs[i], 2 * i - 1, 2 * i>>] :
        locs \in SeqsUpTo(0..MaxLoc, MaxSing)}

NoOutcome == [kind |-> "none", rows |-> <<>>]

\* The state of the parts of the program a specification does not run.
NoInterval ==
    /\ a = 0 /\ b = 0 /\ singularity_list = <<>> /\ subintervals = NoOutcome

NoFamily ==
    /\ family = "none"
    /\ self_ab = [id |-> 0, rows |-> <<>>]
    /\ driver_calls = 0
    /\ arg = [op |-> "none"]
    /\ ret = [kind |-> "none"]

InitSub ==
    /\ pc = "call"
    /\ NoFamily
    /\ heap = <<>>
    /\ \E iv \in Intervals : a = iv[1] /\ b = iv[2]
    /\ singularity_list \in SingularityLists
    /\ subintervals = NoOutcome

ComputeSubintervals ==
    /\ pc = "call"
    /\ subintervals' = compute_subintervals(a, b, singularity_list)
    /\ pc' = "done"
    /\ UNCHANGED <<a, b, singularity_list, famVars, heap>>

NextSub == ComputeSubintervals

SpecSub == InitSub /\ [][NextSub]_vars

---------------------------------------------------------------------------
(* Properties of compute_subintervals *)

\* What the descriptors say, read off the argument list alone.
Inside(lo, hi, x) == lo - Tol <= x /\ x <= hi + Tol

KeptIdx == {i \in DOMAIN singularity_list :
                Inside(a, b, Location(singularity_list[i]))}

KeptLocations == {Location(singularity_list[i]) : i \in KeptIdx}

PairwiseApart ==
    \A i, j \in KeptIdx :
        i # j => Abs(Location(singularity_list[i]) - Location(singularity_list[j])) >= Tol

NearA == {x \in KeptLocations : Abs(x - a) <= Tol}
NearB == {x \in KeptLocations : Abs(x - b) <= Tol}

Min(S) == CHOOSE x \in S : \A y \in S : x <= y

RECURSIVE Sorted(_)
Sorted(S) == IF S = {} THEN <<>> ELSE <<Min(S)>> \o Sorted(S \ {Min(S)})

\* The sorted sequence a, s_1, ..., s_k, b in which a singularity within
\* the tolerance of an endpoint takes the place of that endpoint.
EndpointSequence ==
    Sorted(KeptLocations \cup (IF NearA = {} THEN {a} ELSE {})
                         \cup (IF NearB = {} THEN {b} ELSE {}))

\* The rows are the consecutive pairs of the endpoint sequence: hence they
\* are ordered and adjacent rows share an endpoint.
ConsecutivePairs ==
    LET rows == subintervals.rows
        seq  == EndpointSequence
    IN  /\ Len(rows) = Len(seq) - 1
        /\ \A q \in DOMAIN rows : rows[q][1] = seq[q] /\ rows[q][2] = seq[q + 1]
        /\ \A q \in DOMAIN rows : rows[q][1] < rows[q][2]
        /\ \A q \in 1..(Len(rows) - 1) : rows[q][2] = rows[q + 1][1]

\* The union of the rows is [a,b] within the tolerance.
CoversDomain ==
    LET rows == subintervals.rows
    IN  /\ Len(rows) >= 1
        /\ Abs(rows[1][1] - a) <= Tol
        /\ Abs(rows[Len(rows)][2] - b) <= Tol

\* C1: when the singularities kept in [a-tol, b+tol] are pairwise at least
\* tol apart, the call returns a table whose rows are the consecutive pairs
\* of the sorted sequence a, s_1, ..., s_k, b (a singularity within tol of
\* an endpoint taking its place); the rows cover [a,b] within tolerance, k
\* interior singularities give k+1 rows and no kept singularity gives the
\* single row [a,b].
C1_RowsPartitionDomain ==
    (pc = "done" /\ PairwiseApart) =>
        /\ subintervals.kind = "table"
        /\ ConsecutivePairs
        /\ CoversDomain
        /\ (NearA = {} /\ NearB = {}) =>
               Len(subintervals.rows) = Cardinality(KeptLocations) + 1
        /\ KeptLocations = {} => subintervals.rows = << <<a, b, 0, 0>> >>

\* The part of C1 that the code does satisfy: everything but the cover.
SubintervalsAreConsecutivePairs ==
    (pc = "done" /\ PairwiseApart) =>
        subintervals.kind = "table" /\ ConsecutivePairs

\* C2: whenever two of the singularities that remain after the discard are
\* closer than tol to each other, the call raises the ValueError and
\* returns no table.
C2_OverlapRaises ==
    (pc = "done" /\ ~PairwiseApart) =>
        subintervals.kind = "ValueError" /\ subintervals.rows = <<>>

\* Two kept singularities at distinct locations closer than tol, given in
\* decreasing order with another kept singularity before them, were rejected.
C2_Witness ==
    /\ pc = "done"
    /\ subintervals.kind = "ValueError"
    /\ \E i, j \in KeptIdx :
          /\ 1 < i /\ i < j /\ 1 \in KeptIdx
          /\ Location(singularity_list[i]) = Location(singularity_list[j]) + 1
          /\ Location(singularity_list[1]) > Location(singularity_list[i]) + Tol

\* The kept descriptors located at x.
DescriptorsAt(x) == {i \in KeptIdx : Location(singularity_list[i]) = x}

\* C3: in every row, column 3 is the right-exponent of the singularity at
\* the row's left endpoint and column 4 the left-exponent of the
\* singularity at its right endpoint; an endpoint that is a synthesised
\* domain endpoint carries strength 0.
C3_StrengthsOfOwnEndpoints ==
    (pc = "done" /\ subintervals.kind = "table") =>
        \A q \in DOMAIN subintervals.rows :
            LET row == subintervals.rows[q]
            IN  /\ IF DescriptorsAt(row[1]) # {}
                   THEN \A i \in DescriptorsAt(row[1]) :
                            row[3] = StrengthRight(singularity_list[i])
                   ELSE row[1] = a /\ NearA = {} /\ row[3] = 0
                /\ IF DescriptorsAt(row[2]) # {}
                   THEN \A i \in DescriptorsAt(row[2]) :
                            row[4] = StrengthLeft(singularity_list[i])
                   ELSE row[2] = b /\ NearB = {} /\ row[4] = 0

\* A table of three rows between two synthesised endpoints, built from a
\* list that is not sorted.
C3_Witness ==
    /\ pc = "done"
    /\ subintervals.kind = "table"
    /\ Len(subintervals.rows) = 3
    /\ NearA = {} /\ NearB = {}
    /\ subintervals.rows[1][3] = 0
    /\ subintervals.rows[3][4] = 0
    /\ subintervals.rows[2][3] = StrengthRight(singularity_list[2])
    /\ subintervals.rows[2][4] = StrengthLeft(singularity_list[1])

\* The argument list without the descriptors outside [a-tol, b+tol].
WithoutOutside(lo, hi, list) ==
    SelectSeq(list, LAMBDA entry : Inside(lo, hi, Location(entry)))

\* C4: the outcome on a list equals the outcome on the same list with the
\* singularities below a-tol or above b+tol removed.
C4_OutsideIgnored ==
    pc = "done" =>
        subintervals = compute_subintervals(a, b, WithoutOutside(a, b, singularity_list))

\* A table was returned although a discarded singularity on each side lies
\* closer than tol to a kept one.
C4_Witness ==
    /\ pc = "done"
    /\ subintervals.kind = "table"
    /\ Len(singularity_list) = 3
    /\ Location(singularity_list[1]) = b + Tol + 1
    /\ Location(singularity_list[2]) = b + Tol
    /\ Location(singularity_list[3]) = a - Tol - 1

---------------------------------------------------------------------------
(* OrthogonalPolynomialBasis1D.recurrence, opoly1d.py lines 150-202 *)

\* Bounds: the largest degree asked of recurrence, and the number of
\* recurrence_driver invocations explored on one instance.
MaxN == 5
MaxCalls == 6

\* A row of a recurrence table holds the pair (alpha_n, beta_n) of the
\* family.  It is recorded as the index n of the pair it holds and the
\* recurrence_driver invocation that computed it.
Pair(n, call) == [n |-> n, call |-> call]

\* s[:k] of Python, for any integer k.
PySliceTo(s, k) ==
    IF k >= 0 THEN SubSeq(s, 1, IF k < Len(s) THEN k ELSE Len(s))
    ELSE SubSeq(s, 1, IF Len(s) + k > 0 THEN Len(s) + k ELSE 0)

\* recurrence_driver(N).  The base class raises ValueError (line 201).  A
\* subclass returns an (N+1) x 2 array (the contract of lines 194-199);
\* `missing` is the number of rows by which a subclass falls short of the
\* contract, 0 for a subclass that keeps it.
recurrence_driver(fam, N, call, missing) ==
    IF fam = "base"
    THEN [kind |-> "ValueError", rows |-> <<>>]
    ELSE [kind |-> "table",
          rows |-> [i \in 1..(N + 1 - missing) |-> Pair(i - 1, call)]]

\* recurrence(N), lines 188-192, on an instance whose stored table is st
\* after `calls` driver invocations.  The result gives the stored table
\* and the invocation count after the call and what the call returns: the
\* stored array itself (line 190), a view of its first rows (line 192), or
\* the ValueError that the driver raised, which leaves self.ab as it was.
recurrenceAppendsMissingRows(fam, st, calls, N, missing) ==
    IF N + 1 > Len(st.rows)
    THEN LET r == recurrence_driver(fam, N, calls + 1, missing)
         IN  IF r.kind = "ValueError"
             THEN [ab |-> st, calls |-> calls + 1,
                   ret |-> [kind |-> "ValueError", id |-> 0, rows |-> <<>>]]
             ELSE LET grown == st.rows \o SubSeq(r.rows, Len(st.rows) + 1, Len(r.rows))
                  IN  [ab |-> [id |-> st.id, rows |-> grown], calls |-> calls + 1,
                       ret |-> [kind |-> "table", id |-> st.id, rows |-> grown]]
    ELSE [ab |-> st, calls |-> calls,
          ret |-> [kind |-> "table", id |-> st.id, rows |-> PySliceTo(st.rows, N + 1)]]

recurrenceDriverWhenEqual(fam, st, calls, N, missing) ==
    IF N + 1 >= Len(st.rows)
    THEN LET r == recurrence_driver(fam, N, calls + 1, missing)
         IN  IF r.kind = "ValueError"
             THEN [ab |-> st, calls |-> calls + 1,
                   ret |-> [kind |-> "ValueError", id |-> 0, rows |-> <<>>]]
             ELSE [ab |-> [id |-> calls + 1, rows |-> r.rows], calls |-> calls + 1,
                   ret |-> [kind |-> "table", id |-> calls + 1, rows |-> r.rows]]
    ELSE [ab |-> st, calls |-> calls,
          ret |-> [kind |-> "table", id |-> st.id, rows |-> PySliceTo(st.rows, N + 1)]]

recurrence(fam, st, calls, N, missing) ==
    IF N + 1 > Len(st.rows)
    THEN LET r == recurrence_driver(fam, N, calls + 1, missing)
         IN  IF r.kind = "ValueError"
             THEN [ab |-> st, calls |-> calls + 1,
                   ret |-> [kind |-> "ValueError", id |-> 0, rows |-> <<>>]]
             ELSE [ab |-> [id |-> calls + 1, rows |-> r.rows], calls |-> calls + 1,
                   ret |-> [kind |-> "table", id |-> calls + 1, rows |-> r.rows]]
    ELSE [ab |-> st, calls |-> calls,
          ret |-> [kind |-> "table", id |-> st.id, rows |-> PySliceTo(st.rows, N + 1)]]

\* __init__, lines 151-154: self.ab = np.zeros([0,2]).
NewInstance ==
    /\ self_ab = [id |-> 0, rows |-> <<>>]
    /\ driver_calls = 0
    /\ ret = [kind |-> "none"]

InitRec ==
    /\ pc = "idle"
    /\ NoInterval
    /\ heap = <<>>
    /\ family \in {"base", "subclass"}
    /\ NewInstance
    /\ arg = [op |-> "none"]

\* A call recurrence(N) by a client of the instance.
Recurrence ==
    \E N \in 0..MaxN :
        LET r == recurrence(family, self_ab, driver_calls, N, 0)
        IN  /\ r.calls <= MaxCalls
            /\ self_ab' = r.ab
            /\ driver_calls' = r.calls
            /\ ret' = r.ret
            /\ arg' = [op |-> "recurrence", N |-> N]
            /\ UNCHANGED <<pc, subVars, family, heap>>

NextRec == Recurrence

SpecRec == InitRec /\ [][NextRec]_vars

---------------------------------------------------------------------------
(* Properties of recurrence *)

\* A step that is a call recurrence(N) finding fewer than N+1 stored rows
\* and getting a table from the driver.
GrowthStep ==
    /\ arg'.op = "recurrence"
    /\ arg'.N + 1 > Len(self_ab.rows)
    /\ ret'.kind = "table"

\* C5: over any sequence of recurrence(N) calls on one instance the number
\* of stored rows never decreases; recurrence_driver is invoked only by a
\* call whose N+1 exceeds the stored row count; a call with N+1 <= stored
\* rows returns exactly the first N+1 stored rows without invoking it.
C5_MemoisedRecurrence ==
    [][ arg'.op = "recurrence" =>
          /\ Len(self_ab'.rows) >= Len(self_ab.rows)
          /\ driver_calls' # driver_calls => arg'.N + 1 > Len(self_ab.rows)
          /\ arg'.N + 1 <= Len(self_ab.rows) =>
                /\ driver_calls' = driver_calls
                /\ self_ab' = self_ab
                /\ ret'.kind = "table"
                /\ ret'.rows = SubSeq(self_ab.rows, 1, arg'.N + 1) ]_vars

\* After the table was grown twice, a call returned a proper prefix of it.
C5_Witness ==
    /\ arg.op = "recurrence"
    /\ driver_calls = 2
    /\ ret.kind = "table"
    /\ Len(ret.rows) = arg.N + 1
    /\ Len(ret.rows) < Len(self_ab.rows)
    /\ Len(ret.rows) >= 2

\* C6 as stated: a recurrence(N) call that finds 1 <= M < N+1 stored rows does
\* not recompute or replace rows 0..M-1; they keep the values and the
\* storage they had, and only rows M..N are computed.
C6_PrefixKeptInPlace ==
    [][ (GrowthStep /\ Len(self_ab.rows) >= 1) =>
          /\ self_ab'.id = self_ab.id
          /\ \A i \in DOMAIN self_ab.rows : self_ab'.rows[i] = self_ab.rows[i] ]_vars

\* C6 as amended: a recurrence(N) call that finds M < N+1 stored rows
\* stores the whole array that recurrence_driver(N) returns, a new array in
\* which rows 0..M-1 are recomputed by that invocation together with rows
\* M..N; row n of the new table again holds the family's pair number n.
C6_TableReplacedByDriverOutput ==
    [][ GrowthStep =>
          /\ self_ab'.id # self_ab.id
          /\ Len(self_ab'.rows) = arg'.N + 1
          /\ \A i \in DOMAIN self_ab'.rows :
                self_ab'.rows[i] = Pair(i - 1, driver_calls')
          /\ ret' = [kind |-> "table", id |-> self_ab'.id, rows |-> self_ab'.rows] ]_vars

\* A table grown by a second driver invocation from at least two rows.
C6_Witness ==
    /\ arg.op = "recurrence"
    /\ family = "subclass"
    /\ driver_calls = 2
    /\ arg.N + 1 = Len(self_ab.rows)
    /\ Len(self_ab.rows) >= 3
    /\ self_ab.rows[1].call = 2

---------------------------------------------------------------------------
(* OrthogonalPolynomialBasis1D.eval, opoly1d.py lines 206-283 *)

\* Bounds: the largest degree and derivative order asked of eval, the
\* largest number of points and of degrees in one call, and the largest
\* number of rows by which a subclass driver falls short of its contract.
MaxDeg == 2
MaxOrder == 1
MaxSize == 2
MaxMissing == 2

Max(S) == CHOOSE x \in S : \A y \in S : x >= y

\* What eval returns or raises.  `got` is the number of rows of the table
\* that recurrence(nmax+1) returned (-1 when it was not called or raised);
\* `shape` is the shape of the array returned.
EvalOutcome(kind, got, shape) == [kind |-> kind, got |-> got, shape |-> shape]

\* lines 226-228, reached with the table `rows` in hand: the three
\* assertions, then the evaluation.  dkind tells whether d is an int, an
\* ndarray or a list: `d >= 0` compares an int or an ndarray with 0 and is
\* a TypeError for a list.
EvalChecksNoDegreeSign(xsize, n, dkind, d, rows) ==
    LET nmax == Max(Range(n))
    IN  IF ~(nmax < Len(rows)) THEN EvalOutcome("AssertionError", Len(rows), <<>>)
        ELSE IF dkind = "list" THEN EvalOutcome("TypeError", Len(rows), <<>>)
        ELSE IF ~(\A i \in DOMAIN d : d[i] >= 0)
            THEN EvalOutcome("AssertionError", Len(rows), <<>>)
        ELSE EvalOutcome("values", Len(rows), <<xsize, Len(n)>>)

EvalChecks(xsize, n, dkind, d, rows) ==
    LET nmax == Max(Range(n))
    IN  IF ~(nmax < Len(rows)) THEN EvalOutcome("AssertionError", Len(rows), <<>>)
        ELSE IF ~(Min(Range(n)) > -1) THEN EvalOutcome("AssertionError", Len(rows), <<>>)
        ELSE IF dkind = "list" THEN EvalOutcome("TypeError", Len(rows), <<>>)
        ELSE IF ~(\A i \in DOMAIN d : d[i] >= 0)
            THEN EvalOutcome("AssertionError", Len(rows), <<>>)
        ELSE EvalOutcome("values", Len(rows), <<xsize, Len(n)>>)

\* eval(x, n, d) on an instance whose stored table is st: x has xsize
\* points, n is the list of degrees, d the derivative orders.  The result
\* gives the stored table and the invocation count after the call and the
\* outcome.  Lines 220-221 return np.zeros(0) before anything is checked;
\* line 224 calls recurrence(nmax+1), whose ValueError propagates.
eval(fam, st, calls, xsize, n, dkind, d, missing) ==
    IF Len(n) < 1 \/ xsize < 1
    THEN [ab |-> st, calls |-> calls, out |-> EvalOutcome("empty", -1, <<0>>)]
    ELSE LET nmax == Max(Range(n))
             r == recurrence(fam, st, calls, nmax + 1, missing)
         IN  IF r.ret.kind = "ValueError"
             THEN [ab |-> r.ab, calls |-> r.calls,
                   out |-> EvalOutcome("ValueError", -1, <<>>)]
             ELSE [ab |-> r.ab, calls |-> r.calls,
                   out |-> EvalChecks(xsize, n, dkind, d, r.ret.rows)]

\* The calls explored.  The instance is new, or (a subclass) has answered
\* one recurrence call before and stores the rows that call computed.  The
\* degrees start at -2 and the orders at -1; d is an int (a one-element
\* sequence here), an ndarray or a list of one order.
DegreeLists == SeqsUpTo((-2)..MaxDeg, MaxSize)
OrderLists == {<<v>> : v \in (-1)..MaxOrder}

UsedInstance(rows) ==
    /\ self_ab = [id |-> 1, rows |-> [i \in 1..rows |-> Pair(i - 1, 1)]]
    /\ driver_calls = 1
    /\ ret = [kind |-> "none"]

InitEval ==
    /\ pc = "call"
    /\ NoInterval
    /\ heap = <<>>
    /\ family \in {"base", "subclass", "deficient"}
    /\ \/ NewInstance
       \/ /\ family # "base"
          /\ \E rows \in 1..(MaxDeg + 2) : UsedInstance(rows)
    /\ \E xsize \in 0..MaxSize, n \in DegreeLists, dkind \in {"int", "ndarray", "list"},
          d \in OrderLists, missing \in 0..MaxMissing :
          /\ family # "deficient" => missing = 0
          /\ arg = [op |-> "eval", xsize |-> xsize, n |-> n, dkind |-> dkind,
                    d |-> d, missing |-> missing]

\* The call eval(x, n, d) on the instance.
Eval ==
    /\ pc = "call"
    /\ LET r == eval(family, self_ab, driver_calls, arg.xsize, arg.n, arg.dkind,
                     arg.d, arg.missing)
       IN  /\ self_ab' = r.ab
           /\ driver_calls' = r.calls
           /\ ret' = r.out
    /\ pc' = "done"
    /\ UNCHANGED <<subVars, family, arg, heap>>

NextEval == Eval

SpecEval == InitEval /\ [][NextEval]_vars

---------------------------------------------------------------------------
(* Properties of eval *)

\* The conditions of C9 on the latest call: the largest degree is not
\* smaller than the number of rows obtained, a degree is negative, or a
\* derivative order is negative.
DegreeBeyondTable == ret.got >= 0 /\ Max(Range(arg.n)) >= ret.got
NegativeDegree == \E i \in DOMAIN arg.n : arg.n[i] < 0
NegativeOrder == \E i \in DOMAIN arg.d : arg.d[i] < 0

C9_WitnessShortTable ==
    /\ pc = "done"
    /\ ret.kind = "AssertionError"
    /\ DegreeBeyondTable /\ ~NegativeDegree /\ ~NegativeOrder

C9_WitnessNegativeDegree ==
    /\ pc = "done"
    /\ ret.kind = "AssertionError"
    /\ NegativeDegree /\ ~DegreeBeyondTable /\ ~NegativeOrder
    /\ Max(Range(arg.n)) >= 1

---------------------------------------------------------------------------
(* Measure modification: opoly1d.py lines 584-743, composite.py 313-422 *)

\* Bounds: the rows of the table handed to a modification, the target
\* degree N, and the number of roots handed to measure_mod.
MaxRows == 5
MaxTarget == 2
MaxZeros == 2

\* r_eval(x, n) for one point x and one degree n, lines 600-608, as far as
\* the instance is concerned: it calls recurrence(n+1) and asserts.
r_eval(fam, st, calls, n) ==
    LET r == recurrence(fam, st, calls, n + 1, 0)
    IN  IF r.ret.kind = "ValueError"
        THEN [ab |-> r.ab, calls |-> r.calls, kind |-> "ValueError"]
        ELSE IF ~(n < Len(r.ret.rows)) \/ ~(n > -1)
        THEN [ab |-> r.ab, calls |-> r.calls, kind |-> "AssertionError"]
        ELSE [ab |-> r.ab, calls |-> r.calls, kind |-> "ok"]

\* qpoly1d_eval(x, n), lines 638-642: asserts n > 0, calls recurrence(n-1)
\* and reads x.size, which a Python float does not have.
qpoly1d_eval(fam, st, calls, xkind, n) ==
    IF ~(n > 0)
    THEN [ab |-> st, calls |-> calls, kind |-> "AssertionError"]
    ELSE LET r == recurrence(fam, st, calls, n - 1, 0)
         IN  IF r.ret.kind = "ValueError"
             THEN [ab |-> r.ab, calls |-> r.calls, kind |-> "ValueError"]
             ELSE IF xkind = "float"
             THEN [ab |-> r.ab, calls |-> r.calls, kind |-> "AttributeError"]
             ELSE [ab |-> r.ab, calls |-> r.calls, kind |-> "ok"]

\* The evaluations a modification makes, in the order of the code: a step
\* is a read ab[k,1] of the table handed in (IndexError past its last
\* row), an r_eval(y0, n) or a qpoly1d_eval(z0, n) on the instance.
Read(k) == <<"read", k>>
REval(n) == <<"r_eval", n>>
QEval(n) == <<"qpoly1d_eval", n>>

RECURSIVE Run(_, _, _, _, _, _)
Run(fam, st, calls, rows, xkind, steps) ==
    IF steps = <<>> THEN [ab |-> st, calls |-> calls, kind |-> "ok"]
    ELSE LET step == Head(steps)
         IN  IF step[1] = "read"
             THEN IF step[2] >= rows
                  THEN [ab |-> st, calls |-> calls, kind |-> "IndexError"]
                  ELSE Run(fam, st, calls, rows, xkind, Tail(steps))
             ELSE LET r == IF step[1] = "r_eval"
                           THEN r_eval(fam, st, calls, step[2])
                           ELSE qpoly1d_eval(fam, st, calls, xkind, step[2])
                  IN  IF r.kind # "ok" THEN r
                      ELSE Run(fam, r.ab, r.calls, rows, xkind, Tail(steps))

\* recurrence_lin_mod_jacobi: the body of the loops of lines 734-739 (both
\* loops evaluate the same expressions) from j on, and lines 732-739.
RECURSIVE LinLoop(_, _)
LinLoop(j, N) ==
    IF j > N THEN <<>>
    ELSE <<Read(j + 1), REval(j + 2), Read(j), REval(j + 1)>> \o LinLoop(j + 1, N)

LinSteps(N) ==
    <<Read(1), REval(2), Read(1), REval(2)>> \o LinLoop(1, N) \o LinLoop(1, N)

\* recurrence_quad_mod_jacobi: the loops of lines 707-709 and 710-715, and
\* lines 701-715.
RECURSIVE QuadLoopB(_, _)
QuadLoopB(j, N) ==
    IF j > N THEN <<>>
    ELSE <<QEval(j + 2), QEval(j + 1)>> \o QuadLoopB(j + 1, N)

RECURSIVE QuadLoopA(_, _)
QuadLoopA(j, N) ==
    IF j > N THEN <<>>
    ELSE <<Read(j + 2), QEval(j + 3), QEval(j + 2), QEval(j + 2),
           Read(j + 1), QEval(j + 2), QEval(j + 1), QEval(j + 1)>>
         \o QuadLoopA(j + 1, N)

QuadSteps(N) ==
    <<Read(2), QEval(3), QEval(2), QEval(2), Read(1), QEval(2), QEval(1), QEval(1),
      QEval(2), QEval(1)>>
    \o QuadLoopB(1, N) \o QuadLoopA(1, N)

\* A row of a table on the heap: who wrote it, and its pair (alpha, beta)
\* where that is computed exactly.  The two numbers of a modified row come
\* out of ratio recursions and square roots; such a row is recorded as the
\* operation, its root and the row of the table it is computed from.
Given(alpha, beta) == [by |-> "caller", at |-> 0, from |-> <<0, 0>>, val |-> <<alpha, beta>>]

LinRow(tab, j, y0) == [by |-> "lin", at |-> y0, from |-> <<tab, j>>, val |-> <<>>]

QuadRow(tab, j, z0) == [by |-> "quad", at |-> z0, from |-> <<tab, j + 1>>, val |-> <<>>]

\* lines 727 and 696: the table handed in has too few rows.
LinShortOffByOne(rows, N) == rows < N + 1

LinShort(rows, N) == rows < N + 2

QuadShort(rows, N) == rows < N + 3

ErrorMessage == "Error, requires more recurrence pairs"

\* recurrence_lin_mod_jacobi(ab, N, y0): hp is the heap, tab the identity
\* of the table handed in.  The result gives the instance's table and
\* invocation count, the heap and the outcome after the call: the message
\* of line 728 (a returned string), an exception, or the identity of the
\* new array AB of line 730.
recurrence_lin_mod_jacobi(fam, st, calls, hp, tab, N, y0) ==
    IF LinShort(Len(hp[tab]), N)
    THEN [ab |-> st, calls |-> calls, heap |-> hp,
          out |-> [kind |-> "message", text |-> ErrorMessage]]
    ELSE LET r == Run(fam, st, calls, Len(hp[tab]), "float", LinSteps(N))
         IN  IF r.kind # "ok"
             THEN [ab |-> r.ab, calls |-> r.calls, heap |-> hp, out |-> [kind |-> r.kind]]
             ELSE [ab |-> r.ab, calls |-> r.calls,
                   heap |-> Append(hp, [j \in 1..(N + 1) |-> LinRow(tab, j - 1, y0)]),
                   out |-> [kind |-> "table", ref |-> Len(hp) + 1]]

\* recurrence_quad_mod_jacobi(ab, N, z0), z0 a Python float or a numpy value.
recurrence_quad_mod_jacobi(fam, st, calls, hp, tab, N, z0, zkind) ==
    IF QuadShort(Len(hp[tab]), N)
    THEN [ab |-> st, calls |-> calls, heap |-> hp,
          out |-> [kind |-> "message", text |-> ErrorMessage]]
    ELSE LET r == Run(fam, st, calls, Len(hp[tab]), zkind, QuadSteps(N))
         IN  IF r.kind # "ok"
             THEN [ab |-> r.ab, calls |-> r.calls, heap |-> hp, out |-> [kind |-> r.kind]]
             ELSE [ab |-> r.ab, calls |-> r.calls,
                   heap |-> Append(hp, [j \in 1..(N + 1) |-> QuadRow(tab, j - 1, z0)]),
                   out |-> [kind |-> "table", ref |-> Len(hp) + 1]]

Sqrt(x) == CHOOSE r \in 0..x : r * r = x

\* x / y for y # 0 dividing x.
Quotient(x, y) == IF (x < 0) = (y < 0) THEN Abs(x) \div Abs(y) ELSE -(Abs(x) \div Abs(y))

\* Composite.affine_mapping(ab, a, b), lines 324-328: a new array of the
\* shape of ab; line 326 indexes row 0, which an empty table does not have.
affine_mapping(hp, tab, shift, scale) ==
    IF Len(hp[tab]) = 0
    THEN [heap |-> hp, out |-> [kind |-> "IndexError"]]
    ELSE LET ab == hp[tab]
             mapped_ab ==
                 [i \in 1..Len(ab) |->
                     [by |-> "affine_mapping", at |-> 0, from |-> <<tab, i - 1>>,
                      val |-> IF i = 1
                              THEN <<0, Quotient(ab[1].val[2], Sqrt(Abs(scale)))>>
                              ELSE <<Quotient(ab[i].val[1] - shift, scale),
                                     Quotient(ab[i].val[2], Abs(scale))>>]]
         IN  [heap |-> Append(hp, mapped_ab),
              out |-> [kind |-> "table", ref |-> Len(hp) + 1]]

\* linear_modification(alphbet, x0) and quadratic_modification(alphbet, z0)
\* of UncertainSCI.opoly1d (imported at composite.py line 3): each returns
\* a new table, with one (two) rows fewer than the table handed in, the
\* linear one with a sign; a table without the margin is an error.  A root
\* is given as <<x0, sgn>>, sgn being the sign the linear modification
\* returns for it.
linear_modification(hp, tab, root) ==
    IF Len(hp[tab]) < 2
    THEN [heap |-> hp, out |-> [kind |-> "InsufficientMargin"]]
    ELSE [heap |-> Append(hp, [j \in 1..(Len(hp[tab]) - 1) |-> LinRow(tab, j - 1, root[1])]),
          out |-> [kind |-> "table", ref |-> Len(hp) + 1, sgn |-> root[2]]]

quadratic_modification(hp, tab, root) ==
    IF Len(hp[tab]) < 3
    THEN [heap |-> hp, out |-> [kind |-> "InsufficientMargin"]]
    ELSE [heap |-> Append(hp, [j \in 1..(Len(hp[tab]) - 2) |-> QuadRow(tab, j - 1, root[1])]),
          out |-> [kind |-> "table", ref |-> Len(hp) + 1]]

\* Composite.measure_mod(ab, zeros, lin), lines 412-422: the loop of lines
\* 416-421 from root number i on, ab naming the table `tab`.
RECURSIVE MeasureModLoopKeepsLastSign(_, _, _, _, _, _)
MeasureModLoopKeepsLastSign(hp, tab, signs, zeros, lin, i) ==
    IF i > Len(zeros)
    THEN [heap |-> hp, out |-> [kind |-> "table", ref |-> tab, signs |-> signs]]
    ELSE LET r == IF lin THEN linear_modification(hp, tab, zeros[i])
                  ELSE quadratic_modification(hp, tab, zeros[i])
         IN  IF r.out.kind # "table" THEN r
             ELSE MeasureModLoopKeepsLastSign(r.heap, r.out.ref,
                                              IF lin THEN r.out.sgn ELSE signs,
                                              zeros, lin, i + 1)

RECURSIVE MeasureModLoop(_, _, _, _, _, _)
MeasureModLoop(hp, tab, signs, zeros, lin, i) ==
    IF i > Len(zeros)
    THEN [heap |-> hp, out |-> [kind |-> "table", ref |-> tab, signs |-> signs]]
    ELSE LET r == IF lin THEN linear_modification(hp, tab, zeros[i])
                  ELSE quadratic_modification(hp, tab, zeros[i])
         IN  IF r.out.kind # "table" THEN r
             ELSE MeasureModLoop(r.heap, r.out.ref,
                                 IF lin THEN signs * r.out.sgn ELSE signs,
                                 zeros, lin, i + 1)

measure_mod(hp, tab, zeros, lin) ==
    IF Len(zeros) = 0
    THEN [heap |-> hp, out |-> [kind |-> "table", ref |-> tab, signs |-> 1]]
    ELSE MeasureModLoop(hp, tab, 1, zeros, lin, 1)

\* One integral estimate of Composite.eval_integral, lines 431-437, on the
\* table `tab` that find_jacobi has obtained from the reference family:
\* find_jacobi applies measure_mod for zeros (lines 364-367, 376-379, ...)
\* and returns its signs, lines 433-435 apply measure_mod for addzeros,
\* line 436 needs a table with at least two rows, and line 437 multiplies
\* the quadrature sum `q` by leadingc and signs.
EstimateOf(hp, tab, zeros, lin, addzeros, leadingc, q) ==
    LET fj == IF Len(zeros) = 0
              THEN [heap |-> hp, out |-> [kind |-> "table", ref |-> tab, signs |-> 1]]
              ELSE measure_mod(hp, tab, zeros, lin)
        am == IF fj.out.kind = "table" /\ Len(addzeros) > 0
              THEN measure_mod(fj.heap, fj.out.ref, addzeros, TRUE)
              ELSE [heap |-> fj.heap, out |-> [kind |-> fj.out.kind, ref |-> tab, signs |-> 1]]
        ab_mod == IF Len(addzeros) > 0 THEN am.out.ref ELSE fj.out.ref
    IN  IF fj.out.kind # "table" THEN [heap |-> fj.heap, out |-> [kind |-> fj.out.kind]]
        ELSE IF am.out.kind # "table" THEN [heap |-> am.heap, out |-> [kind |-> am.out.kind]]
        ELSE IF Len(am.heap[ab_mod]) < 2 THEN [heap |-> am.heap, out |-> [kind |-> "IndexError"]]
        ELSE [heap |-> am.heap,
              out |-> [kind |-> "estimate", table |-> ab_mod,
                       value |-> leadingc * (fj.out.signs * am.out.signs) * q]]

\* The value of np.sum(integrands(ug) * wg) in the estimates explored.
QuadratureSum == 3

\* The calls explored.  The caller holds one table, object 1 of the heap,
\* with 0..MaxRows rows of multiples of 4 (so that the divisions of
\* affine_mapping by 1, 2 and 4 are exact); row n is (4(n+v), 4(n+1)).
InputTable(rows, v) == [i \in 1..rows |-> Given(4 * (i - 1 + v), 4 * i)]

Roots == {<<0, 1>>, <<1, -1>>}

ModCalls ==
         {[op |-> "recurrence_lin_mod_jacobi", N |-> N, y0 |-> y0] :
              N \in 0..MaxTarget, y0 \in {0, 1}}
    \cup {[op |-> "recurrence_quad_mod_jacobi", N |-> N, z0 |-> z0, zkind |-> zkind] :
              N \in 0..MaxTarget, z0 \in {0, 1}, zkind \in {"float", "numpy"}}
    \cup {[op |-> "affine_mapping", shift |-> shift, scale |-> scale] :
              shift \in {0, 4}, scale \in {1, -1, 4, -4}}
    \cup {[op |-> "measure_mod", zeros |-> zeros, lin |-> lin] :
              zeros \in SeqsUpTo(Roots, MaxZeros), lin \in BOOLEAN}
    \cup {[op |-> "eval_integral", zeros |-> zeros, lin |-> lin, addzeros |-> addzeros,
            leadingc |-> leadingc] :
              zeros \in SeqsUpTo(Roots, MaxZeros), lin \in BOOLEAN,
              addzeros \in SeqsUpTo(Roots, MaxZeros), leadingc \in {-1, 2}}

InitMod ==
    /\ pc = "call"
    /\ NoInterval
    /\ family \in {"base", "subclass"}
    /\ \/ NewInstance
       \/ /\ family # "base"
          /\ \E rows \in 1..(MaxTarget + 2) : UsedInstance(rows)
    /\ \E rows \in 0..MaxRows, v \in {0, 1} : heap = <<InputTable(rows, v)>>
    /\ arg \in ModCalls

\* What the caller did with the table: the identity and the entries.
Handed == 1

LinModJacobi ==
    /\ pc = "call"
    /\ arg.op = "recurrence_lin_mod_jacobi"
    /\ LET r == recurrence_lin_mod_jacobi(family, self_ab, driver_calls, heap, Handed,
                                          arg.N, arg.y0)
       IN  /\ self_ab' = r.ab /\ driver_calls' = r.calls /\ heap' = r.heap /\ ret' = r.out
    /\ pc' = "done"
    /\ UNCHANGED <<subVars, family, arg>>

QuadModJacobi ==
    /\ pc = "call"
    /\ arg.op = "recurrence_quad_mod_jacobi"
    /\ LET r == recurrence_quad_mod_jacobi(family, self_ab, driver_calls, heap, Handed,
                                           arg.N, arg.z0, arg.zkind)
       IN  /\ self_ab' = r.ab /\ driver_calls' = r.calls /\ heap' = r.heap /\ ret' = r.out
    /\ pc' = "done"
    /\ UNCHANGED <<subVars, family, arg>>

AffineMapping ==
    /\ pc = "call"
    /\ arg.op = "affine_mapping"
    /\ LET r == affine_mapping(heap, Handed, arg.shift, arg.scale)
       IN  heap' = r.heap /\ ret' = r.out
    /\ pc' = "done"
    /\ UNCHANGED <<subVars, family, self_ab, driver_calls, arg>>

MeasureMod ==
    /\ pc = "call"
    /\ arg.op = "measure_mod"
    /\ LET r == measure_mod(heap, Handed, arg.zeros, arg.lin)
       IN  heap' = r.heap /\ ret' = r.out
    /\ pc' = "done"
    /\ UNCHANGED <<subVars, family, self_ab, driver_calls, arg>>

EstimateOnce ==
    /\ pc = "call"
    /\ arg.op = "eval_integral"
    /\ LET r == EstimateOf(heap, Handed, arg.zeros, arg.lin, arg.addzeros, arg.leadingc,
                           QuadratureSum)
       IN  heap' = r.heap /\ ret' = r.out
    /\ pc' = "done"
    /\ UNCHANGED <<subVars, family, self_ab, driver_calls, arg>>

NextMod == LinModJacobi \/ QuadModJacobi \/ AffineMapping \/ MeasureMod \/ EstimateOnce

SpecMod == InitMod /\ [][NextMod]_vars

\* C7: a measure-modification operation that returns a table returns a
\* newly allocated object, never the table object it was handed, and leaves
\* the entries of the table it was handed unchanged, for every root list
\* including the empty one.
C7_ModificationReturnsNewTable ==
    [][(pc = "call" /\ ret'.kind = "table")
          => (ret'.ref # Handed /\ heap'[Handed] = heap[Handed])]_vars

\* The case that refutes C7: measure_mod, handed an empty root list, has
\* returned the very object it was handed.
C7_MeasureModReturnsItsInput ==
    /\ pc = "done"
    /\ arg.op = "measure_mod"
    /\ arg.zeros = <<>>
    /\ ret.kind = "table"
    /\ ret.ref = Handed
    /\ Len(heap) = 1

\* C10: a linear modification to target degree N handed fewer than N+2
\* rows, and a quadratic one handed fewer than N+3 rows, fail at once with
\* the error message: no table is returned, none is allocated, and the
\* instance's recurrence has not been called.
C10_ShortTableFailsImmediately ==
    [][(/\ pc = "call"
        /\ \/ arg.op = "recurrence_lin_mod_jacobi" /\ Len(heap[Handed]) < arg.N + 2
           \/ arg.op = "recurrence_quad_mod_jacobi" /\ Len(heap[Handed]) < arg.N + 3)
          => (/\ ret'.kind = "message"
              /\ ret'.text = ErrorMessage
              /\ heap' = heap
              /\ self_ab' = self_ab
              /\ driver_calls' = driver_calls)]_vars

C10_Witness ==
    /\ pc = "done"
    /\ arg.op = "recurrence_lin_mod_jacobi"
    /\ Len(heap[Handed]) = arg.N + 1
    /\ arg.N >= 1
    /\ ret.kind = "message"

C10_WitnessQuad ==
    /\ pc = "done"
    /\ arg.op = "recurrence_quad_mod_jacobi"
    /\ Len(heap[Handed]) = arg.N + 2
    /\ ret.kind = "message"

\* With the margin the modification goes on to its evaluations.
C10_WitnessMargin ==
    /\ pc = "done"
    /\ arg.op = "recurrence_lin_mod_jacobi"
    /\ Len(heap[Handed]) = arg.N + 2
    /\ ret.kind = "table"
    /\ Len(heap[ret.ref]) = arg.N + 1

---------------------------------------------------------------------------
(* markov_stiltjies: opoly1d.py lines 31-102 *)

\* Bounds: the length of the caller's arrays a and b, the order n, and the
\* number M of entries of u.
MaxCoeff == 8
MaxInduced == 3
MaxU == 2

\* np.diag(v, k): the side of the square matrix built from a vector of
\* `size` entries put on diagonal k.
DiagSide(size, k) == size + Abs(k)

\* len(v[lo:hi]) for 0 <= lo, 0 <= hi.
SliceLen(len, lo, hi) == IF hi > len THEN (IF len > lo THEN len - lo ELSE 0)
                         ELSE (IF hi > lo THEN hi - lo ELSE 0)

\* The side of the sum of two square matrices under numpy's broadcasting:
\* equal sides, or one of them 1; -1 when the shapes do not broadcast.
Broadcast(s, t) == IF s = t THEN s ELSE IF s = 1 THEN t ELSE IF t = 1 THEN s ELSE -1

\* The side of J of line 65 (and of line 75 with N for n).
JacobiSide(la, lb, n) ==
    Broadcast(DiagSide(SliceLen(lb, 1, n), 1), DiagSide(SliceLen(la, 1, n + 1), 0))

\* a, b = quad_mod(a, b, x) of module quad_mod (imported at line 62): the
\* quadratic modification of the coefficients at x, two new arrays with two
\* entries fewer; arrays without that margin are an error.
quad_mod(hp, ia, ib, x) ==
    IF Len(hp[ia]) < 3 \/ Len(hp[ib]) < 3
    THEN [heap |-> hp, kind |-> "InsufficientMargin"]
    ELSE [heap |-> hp \o << [i \in 1..(Len(hp[ia]) - 2) |-> [by |-> "quad", at |-> x,
                                                           from |-> <<ia, i>>, val |-> <<>>]],
                            [i \in 1..(Len(hp[ib]) - 2) |-> [by |-> "quad", at |-> x,
                                                           from |-> <<ib, i>>, val |-> <<>>]] >>,
          kind |-> "ok", a |-> Len(hp) + 1, b |-> Len(hp) + 2]

\* b[0] = 1 of lines 68 and 72, on the array the name b is bound to.
One == [by |-> "markov_stiltjies", at |-> 0, from |-> <<0, 0>>, val |-> <<1>>]

SetFirst(hp, ib) == [hp EXCEPT ![ib] = [@ EXCEPT ![1] = One]]

\* The loop of lines 70-72 from j on; xs is the size of x.
RECURSIVE QuadModLoop(_, _, _, _, _, _)
QuadModLoop(hp, ia, ib, xs, n, j) ==
    IF j >= n THEN [heap |-> hp, kind |-> "ok", a |-> ia, b |-> ib]
    ELSE IF j >= xs THEN [heap |-> hp, kind |-> "IndexError"]
    ELSE LET r == quad_mod(hp, ia, ib, j)
         IN  IF r.kind # "ok" THEN r
             ELSE QuadModLoop(SetFirst(r.heap, r.b), r.a, r.b, xs, n, j + 1)

\* y, v = np.linalg.eigh(J) of line 76: the nodes are distinct and
\* increasing; the model puts node i at the grid point 2i.  The weights
\* w = v[0,:]**2 are not negative and not all zero; the call is given them.
EighNodes(side) == [i \in 1..side |-> 2 * i]

\* np.cumsum(w).
RECURSIVE CumSum(_)
CumSum(w) ==
    IF w = <<>> THEN <<>>
    ELSE LET c == CumSum(SubSeq(w, 1, Len(w) - 1))
         IN  Append(c, (IF c = <<>> THEN 0 ELSE c[Len(c)]) + w[Len(w)])

\* Lines 80-81 and 87-90: W = np.insert(np.cumsum(w), 0, 0), W / W[-1],
\* entries above 1 set to 1 and the last entry set to 1.  The model keeps
\* the numerators over the common denominator W[-1].
Total(w) == CumSum(w)[Len(w)]

CumulativeWeights(w) ==
    LET W == <<0>> \o CumSum(w)
    IN  [i \in 1..Len(W) |-> IF i = Len(W) \/ W[i] > Total(w) THEN Total(w) ELSE W[i]]

\* np.digitize(u, W, right) for increasing W: the number of entries of W
\* that are <= u (right = False), or < u (right = True).
DigitizeRight(u, W) == Cardinality({i \in DOMAIN W : W[i] < u})

Digitize(u, W) == Cardinality({i \in DOMAIN W : W[i] <= u})

\* X[k] of the code, a negative k counting from the end.
Item(X, k) == IF k < 0 THEN X[Len(X) + k + 1] ELSE X[k + 1]

\* Lines 92-100 for one entry u of the argument: X[jleft], X[jright].
Bracket(u, X, W, N) ==
    LET j == Digitize(u, W)
        flag == j = N + 1
        jleft == IF flag THEN N + 1 ELSE j - 1
        jright == IF flag THEN N + 1 ELSE j + 1
    IN  <<Item(X, jleft), Item(X, jright)>>

\* Lines 74-102 on the modified arrays of `size` entries: u is given by its
\* numerators over the denominator Total(w).  The branch of lines 83-85
\* builds np.array([supp[0], y, y[-1]]) from a scalar, an array and a
\* scalar, which numpy refuses.
intervals(u, supp, size, w) ==
    LET N == size - 1
        side == JacobiSide(size, size, N)
        y == EighNodes(side)
    IN  IF side < 1 THEN [kind |-> "IndexError"]
        ELSE IF ~(supp[2] > y[Len(y)]) THEN [kind |-> "ValueError"]
        ELSE [kind |-> "intervals",
              rows |-> [i \in DOMAIN u |->
                          Bracket(u[i], <<supp[1]>> \o y \o <<supp[2]>>,
                                  CumulativeWeights(w), N)]]

\* markov_stiltjies(u, n, a, b, supp), a and b the identities of the
\* caller's arrays.  Line 62 fails where module quad_mod cannot be
\* imported; line 65 fails where the shapes do not add; lines 74-77 need a
\* modified array of two entries at least.
markov_stiltjies(hp, u, n, ia, ib, supp, w, importable) ==
    IF ~importable THEN [heap |-> hp, out |-> [kind |-> "ImportError"]]
    ELSE IF JacobiSide(Len(hp[ia]), Len(hp[ib]), n) = -1
    THEN [heap |-> hp, out |-> [kind |-> "ValueError"]]
    ELSE LET r == QuadModLoop(SetFirst(hp, ib), ia, ib,
                              JacobiSide(Len(hp[ia]), Len(hp[ib]), n), n, 0)
         IN  IF r.kind # "ok" THEN [heap |-> r.heap, out |-> [kind |-> r.kind]]
             ELSE [heap |-> r.heap, out |-> intervals(u, supp, Len(r.heap[r.a]), w)]

\* The caller's arrays: a is object 1 and b object 2 of the heap, of equal
\* length; b[0] is 1 (a probability measure) or another value.
CallerA == 1
CallerB == 2

Coefficients(len, first) ==
    [i \in 1..len |-> [by |-> "caller", at |-> 0, from |-> <<0, 0>>,
                       val |-> <<IF i = 1 THEN first ELSE i>>]]

\* The number of nodes of the rule of lines 74-76 for caller arrays of
\* `len` entries and order n (0 where the call does not get there).
TailNodes(len, n) == IF len - 2 * n >= 2 /\ len > n THEN len - 2 * n - 1 ELSE 0

\* The support: around the nodes, or with its right (left) end inside them.
Supports(N) == {<<0, 2 * N + 2>>, <<0, 2 * N>>, <<3, 2 * N + 2>>}

InitMS ==
    /\ pc = "call"
    /\ NoInterval
    /\ family = "none"
    /\ NewInstance
    /\ \E len \in 3..MaxCoeff, first \in {1, 2}, n \in 1..MaxInduced, importable \in BOOLEAN :
          /\ heap = <<Coefficients(len, 0), Coefficients(len, first)>>
          /\ \E w \in [1..TailNodes(len, n) -> {0, 2}], M \in 1..MaxU :
                /\ w # <<>> => Total(w) > 0
                /\ ~importable => \A i \in DOMAIN w : w[i] = 2
                /\ \E u \in [1..M -> 0..(IF w = <<>> \/ ~importable THEN 0 ELSE Total(w))],
                      supp \in Supports(TailNodes(len, n)) :
                      /\ ~importable => supp = <<0, 2 * TailNodes(len, n) + 2>>
                      /\ arg = [op |-> "markov_stiltjies", u |-> u, n |-> n, supp |-> supp,
                                w |-> w, importable |-> importable]

MarkovStiltjies ==
    /\ pc = "call"
    /\ arg.op = "markov_stiltjies"
    /\ LET r == markov_stiltjies(heap, arg.u, arg.n, CallerA, CallerB, arg.supp, arg.w,
                                 arg.importable)
       IN  heap' = r.heap /\ ret' = r.out
    /\ pc' = "done"
    /\ UNCHANGED <<subVars, family, self_ab, driver_calls, arg>>

NextMS == MarkovStiltjies

SpecMS == InitMS /\ [][NextMS]_vars

\* C8: after markov_stiltjies the caller's arrays a and b hold exactly the
\* values they held before the call; no entry, b[0] included, is
\* overwritten.
C8_CallerArraysUnchanged ==
    [][(pc = "call" /\ arg.op = "markov_stiltjies")
          => (heap'[CallerA] = heap[CallerA] /\ heap'[CallerB] = heap[CallerB])]_vars

\* The case that refutes C8: the call has returned its intervals and the
\* caller's b[0], which was 2, is 1.
C8_FirstEntryOverwritten ==
    /\ pc = "done"
    /\ ret.kind = "intervals"
    /\ heap[CallerB][1] = One
    /\ heap[CallerB][2].by = "caller"
    /\ heap[CallerA][1].by = "caller"

---------------------------------------------------------------------------
(* The recurrence-computing entry points: composite.py lines 75-267,      *)
(* 507-630, 670-685 and 788-833                                            *)

\* Bound: the largest N asked of an entry point.
MaxPairs == 2

\* -inf and inf: below and above every location of the grid.
NegInf == -(MaxLoc + 1)
PosInf == MaxLoc + 1

\* An integral estimate is a float whose value depends on the weight
\* function; the model keeps its class.  np.sqrt of a negative float is
\* nan, and a product with nan is nan.
Classes == {"pos", "zero", "neg", "nan"}

SqrtClass(c) == IF c = "neg" THEN "nan" ELSE c

TimesClass(c, d) ==
    IF c = "nan" \/ d = "nan" THEN "nan"
    ELSE IF c = "zero" \/ d = "zero" THEN "zero"
    ELSE IF c = d THEN "pos" ELSE "neg"

\* What an entry point produces: a table (the classes of beta_0, beta_1,
\* ... of its rows) or an exception, and how many integrals it had started
\* by then.
Outcome(kind, betas, integrals) == [kind |-> kind, betas |-> betas, integrals |-> integrals]

\* gauss_quadrature_driver(ab, N), opoly1d.py lines 20-29, on a table of
\* `rows` rows: the number of nodes, -1 where the shapes of line 18 do not
\* add, 0 where the matrix is empty (eigh or v[0,:] then raises).
GaussNodes(rows, N) == JacobiSide(rows, rows, N)

\* The loop `for n in range(0, N-1)` of compute_ttr_bounded (lines 94-102)
\* and compute_ttr_unbounded (lines 175-183) from n on: row n+1 takes the
\* guess ab[n,1] times the root of the integral number n+2 of the call.
RECURSIVE TtrLoop(_, _, _, _)
TtrLoop(N, q, n, betas) ==
    IF n >= N - 1 THEN Outcome("table", betas, 1 + 2 * (IF N > 1 THEN N - 1 ELSE 0))
    ELSE TtrLoop(N, q, n + 1, Append(betas, TimesClass(betas[n + 1], SqrtClass(q[n + 2]))))

\* The same loop of the composite variants (lines 207-232, 244-265): line
\* 213 (250) asks gauss_quadrature_driver for the n-point rule of ab first.
CompositeTtrLoop(N, q, betas) ==
    IF 0 >= N - 1 THEN Outcome("table", betas, 1)
    ELSE IF GaussNodes(N, 0) = -1 THEN Outcome("ValueError", <<>>, 1)
    ELSE IF GaussNodes(N, 0) = 0 THEN Outcome("IndexError", <<>>, 1)
    ELSE TtrLoop(N, q, 0, betas)

\* gq_modification_unbounded_composite(integrand, a, b, ...), lines 109-164:
\* no branch assigns `integral` when both ends are finite.
UnboundedIntegralDefined(lo, hi) == lo = NegInf \/ hi = PosInf

\* lines 84, 169, 197 and 237: assert a < b.
AssertDomain(lo, hi) == lo < hi

compute_ttr_bounded(lo, hi, N, list, q) ==
    IF ~AssertDomain(lo, hi) THEN Outcome("AssertionError", <<>>, 0)
    ELSE IF compute_subintervals(lo, hi, list).kind = "ValueError"
    THEN Outcome("ValueError", <<>>, 0)
    ELSE IF N = 0 THEN Outcome("IndexError", <<>>, 1)
    ELSE TtrLoop(N, q, 0, <<SqrtClass(q[1])>>)

compute_ttr_unbounded(lo, hi, N, list, q) ==
    IF ~AssertDomain(lo, hi) THEN Outcome("AssertionError", <<>>, 0)
    ELSE IF ~UnboundedIntegralDefined(lo, hi) THEN Outcome("UnboundLocalError", <<>>, 1)
    ELSE IF N = 0 THEN Outcome("IndexError", <<>>, 1)
    ELSE TtrLoop(N, q, 0, <<SqrtClass(q[1])>>)

compute_ttr_bounded_composite(lo, hi, N, list, q) ==
    IF ~AssertDomain(lo, hi) THEN Outcome("AssertionError", <<>>, 0)
    ELSE IF compute_subintervals(lo, hi, list).kind = "ValueError"
    THEN Outcome("ValueError", <<>>, 0)
    ELSE IF N = 0 THEN Outcome("IndexError", <<>>, 1)
    ELSE CompositeTtrLoop(N, q, <<SqrtClass(q[1])>>)

compute_ttr_unbounded_composite(lo, hi, N, list, q) ==
    IF ~AssertDomain(lo, hi) THEN Outcome("AssertionError", <<>>, 0)
    ELSE IF ~UnboundedIntegralDefined(lo, hi) THEN Outcome("UnboundLocalError", <<>>, 1)
    ELSE IF N = 0 THEN Outcome("IndexError", <<>>, 1)
    ELSE CompositeTtrLoop(N, q, <<SqrtClass(q[1])>>)

\* Composite.find_demar(zeros), lines 303-311: the distinct values among
\* the two ends of the domain, the singularities and the zeros.
find_demar(lo, hi, sing, zeros) == {lo, hi} \cup sing \cup zeros

\* The rows 1..N of Composite.recurrence (lines 523-555) from row i on.
\* Row 1 splits the domain at the zero 0 (line 527); sums over no
\* sub-interval are 0.  `bound` says whether the names array_unique and
\* JacobiPolynomials, which composite.py uses without importing them, are
\* bound in the module when the call runs.
RECURSIVE RecurrenceRows(_, _, _, _, _, _, _, _)
RecurrenceRows(lo, hi, sing, N, q, i, betas, started) ==
    IF i > N THEN Outcome("table", betas, started)
    ELSE LET demar == IF i = 1 THEN find_demar(lo, hi, sing, {0}) ELSE {}
             empty == i = 1 /\ Cardinality(demar) < 2
             s == IF empty THEN "zero" ELSE q[i + 1]
         IN  RecurrenceRows(lo, hi, sing, N, q, i + 1,
                            Append(betas, TimesClass(betas[i], SqrtClass(s))),
                            IF empty THEN started ELSE started + 2)

CompositeRecurrence(lo, hi, sing, N, q, bound) ==
    LET demar == find_demar(lo, hi, sing, {})
        empty == Cardinality(demar) < 2
        beta0 == IF empty THEN "zero" ELSE SqrtClass(q[1])
        started == IF empty THEN 0 ELSE 1
    IN  IF ~empty /\ ~bound THEN Outcome("NameError", <<>>, 1)
        ELSE IF N = 0 THEN Outcome("table", <<beta0>>, started)
        ELSE IF ~bound THEN Outcome("NameError", <<>>, started)
        ELSE RecurrenceRows(lo, hi, sing, N, q, 1, <<beta0>>, started)

\* The rows 1..N of Composite.stieltjes (lines 579-628) and of
\* Composite.aPC (lines 810-831): beta_i is the root of s_1 - s_2, whose
\* class is q[i+1].
RECURSIVE RadicandRows(_, _, _, _, _)
RadicandRows(N, q, i, betas, started) ==
    IF i > N THEN Outcome("table", betas, started)
    ELSE RadicandRows(N, q, i + 1, Append(betas, SqrtClass(q[i + 1])), started + 2)

CompositeStieltjes(lo, hi, sing, N, q, bound) ==
    LET demar == find_demar(lo, hi, sing, {})
        empty == Cardinality(demar) < 2
        beta0 == IF empty THEN "zero" ELSE SqrtClass(q[1])
        started == IF empty THEN 0 ELSE 1
    IN  IF ~bound THEN Outcome("NameError", <<>>, 0)
        ELSE IF N = 0 THEN Outcome("table", <<beta0>>, started)
        ELSE RadicandRows(N, q, 1, <<beta0>>, started)

\* Composite.aPC(N): eval_nc (lines 670-685) asserts s >= 0 for each of
\* the N+1 normalisation integrals; q[1] is the class of the first, whose
\* root is beta_0 (line 806), and nc the class of the least of the others.
\* With a single break point every sum is over no sub-interval and is 0.
CompositeAPC(lo, hi, sing, N, q, nc, bound) ==
    LET demar == find_demar(lo, hi, sing, {})
        empty == Cardinality(demar) < 2
    IN  IF empty THEN Outcome("table", [i \in 1..(N + 1) |-> "zero"], 0)
        ELSE IF ~bound THEN Outcome("NameError", <<>>, 1)
        ELSE IF q[1] \in {"neg", "nan"} \/ (N >= 1 /\ nc \in {"neg", "nan"})
        THEN Outcome("AssertionError", <<>>, N + 1)
        ELSE IF N = 0 THEN Outcome("table", <<q[1]>>, 1)
        ELSE RadicandRows(N, q, 1, <<q[1]>>, N + 1)

\* The calls explored: each entry point on a domain whose left end is
\* -inf or a grid point and whose right end is a grid point or inf (a < b,
\* a = b and a > b all occur), with no singularity or one at the grid point
\* 4, and every class for each of the integrals the call may take.
LeftEnds == {NegInf, 4, 5}
RightEnds == {4, 5, PosInf}

EntryPoints ==
    {"compute_ttr_bounded", "compute_ttr_unbounded", "compute_ttr_bounded_composite",
     "compute_ttr_unbounded_composite", "Composite.recurrence", "Composite.stieltjes",
     "Composite.aPC"}

IsComposite(op) == op \in {"Composite.recurrence", "Composite.stieltjes", "Composite.aPC"}

InitTtr ==
    /\ pc = "call"
    /\ family = "none"
    /\ NewInstance
    /\ heap = <<>>
    /\ subintervals = NoOutcome
    /\ a \in LeftEnds
    /\ b \in RightEnds
    /\ singularity_list \in {<<>>, <<<<4, 1, 2>>>>}
    /\ \E op \in EntryPoints, N \in 0..MaxPairs, bound \in BOOLEAN :
          \E q \in [1..(N + 1) -> Classes], nc \in Classes :
             /\ ~IsComposite(op) => bound
             /\ (op # "Composite.aPC" \/ N = 0) => nc = "pos"
             /\ arg = [op |-> op, N |-> N, q |-> q, nc |-> nc, bound |-> bound]

Sing == {Location(singularity_list[i]) : i \in DOMAIN singularity_list}

\* One call of an entry point, from its first line to its return or its
\* exception.
EntryPoint ==
    /\ pc = "call"
    /\ ret' = CASE arg.op = "compute_ttr_bounded" ->
                     compute_ttr_bounded(a, b, arg.N, singularity_list, arg.q)
                [] arg.op = "compute_ttr_unbounded" ->
                     compute_ttr_unbounded(a, b, arg.N, singularity_list, arg.q)
                [] arg.op = "compute_ttr_bounded_composite" ->
                     compute_ttr_bounded_composite(a, b, arg.N, singularity_list, arg.q)
                [] arg.op = "compute_ttr_unbounded_composite" ->
                     compute_ttr_unbounded_composite(a, b, arg.N, singularity_list, arg.q)
                [] arg.op = "Composite.recurrence" ->
                     CompositeRecurrence(a, b, Sing, arg.N, arg.q, arg.bound)
                [] arg.op = "Composite.stieltjes" ->
                     CompositeStieltjes(a, b, Sing, arg.N, arg.q, arg.bound)
                [] arg.op = "Composite.aPC" ->
                     CompositeAPC(a, b, Sing, arg.N, arg.q, arg.nc, arg.bound)
    /\ pc' = "done"
    /\ UNCHANGED <<subVars, family, self_ab, driver_calls, arg, heap>>

NextTtr == EntryPoint

SpecTtr == InitTtr /\ [][NextTtr]_vars

\* C11: every recurrence-computing entry point rejects a domain with
\* a >= b by an assertion, before any integral is evaluated.
C11_DomainAsserted ==
    (pc = "done" /\ a >= b) => (ret.kind = "AssertionError" /\ ret.integrals = 0)

\* What holds: the four compute_ttr_* functions do.
DomainAssertedByFunctions ==
    (pc = "done" /\ a >= b /\ ~IsComposite(arg.op)) =>
        (ret.kind = "AssertionError" /\ ret.integrals = 0)

\* The case that refutes C11: a method of Composite has returned a table
\* for a domain with a >= b.
C11_CompositeAcceptsDomain ==
    /\ pc = "done"
    /\ a >= b
    /\ IsComposite(arg.op)
    /\ ret.kind = "table"

\* C12: every table returned by an entry point has beta_n > 0 in every
\* row n.
C12_BetaPositive ==
    (pc = "done" /\ ret.kind = "table") =>
        \A n \in DOMAIN ret.betas : ret.betas[n] = "pos"

\* What holds: beta_n is positive in a returned table whose integrals were
\* all positive, on a domain of two distinct ends.
BetaPositiveForPositiveIntegrals ==
    (/\ pc = "done" /\ ret.kind = "table" /\ a < b
     /\ \A i \in DOMAIN arg.q : arg.q[i] = "pos") =>
        \A n \in DOMAIN ret.betas : ret.betas[n] = "pos"

\* The cases that refute C12: a table with beta_0 = 0 returned for a domain
\* of one point, and a table with a beta that is not positive returned for
\* a domain with a < b.
C12_ZeroBetaOnPointDomain ==
    /\ pc = "done" /\ ret.kind = "table" /\ a = b
    /\ arg.op = "Composite.recurrence" /\ arg.N = 0 /\ ret.betas = <<"zero">>

C12_NonPositiveBeta ==
    /\ pc = "done" /\ ret.kind = "table" /\ a < b
    /\ arg.op = "compute_ttr_bounded"
    /\ \E n \in DOMAIN ret.betas : ret.betas[n] # "pos"

\* The support contains the nodes of the rule: supp[0] <= y[0] and
\* y[-1] < supp[1].
ValidSupport ==
    /\ arg.w # <<>>
    /\ arg.supp[1] <= EighNodes(Len(arg.w))[1]
    /\ EighNodes(Len(arg.w))[Len(arg.w)] < arg.supp[2]

\* X of line 80 and the normalised W, indexed from 0 as in the code.
PaddedNodes(k) == (<<arg.supp[1]>> \o EighNodes(Len(arg.w)) \o <<arg.supp[2]>>)[k + 1]
NormalisedW(k) == CumulativeWeights(arg.w)[k + 1]

\* C13: for u in [0,1] and a valid support, markov_stiltjies returns one
\* interval per entry of u, with left <= right inside [supp[0], supp[1]];
\* for W[j-1] <= u < W[j] the interval is [X[j-1], X[j+1]], and u = 1 gives
\* [supp[1], supp[1]].
C13_BracketingIntervals ==
    (pc = "done" /\ ret.kind = "intervals" /\ ValidSupport) =>
        /\ Len(ret.rows) = Len(arg.u)
        /\ \A i \in DOMAIN arg.u :
              /\ ret.rows[i][1] <= ret.rows[i][2]
              /\ arg.supp[1] <= ret.rows[i][1]
              /\ ret.rows[i][2] <= arg.supp[2]
              /\ arg.u[i] = Total(arg.w) => ret.rows[i] = <<arg.supp[2], arg.supp[2]>>
              /\ \A j \in 1..Len(arg.w) :
                    (NormalisedW(j - 1) <= arg.u[i] /\ arg.u[i] < NormalisedW(j)) =>
                        ret.rows[i] = <<PaddedNodes(j - 1), PaddedNodes(j + 1)>>

\* A call on a valid support with an entry of u on a bin boundary inside
\* (0,1), an entry inside a bin and u = 1 among two entries, and a node of
\* weight 0.
C13_Witness ==
    /\ pc = "done" /\ ret.kind = "intervals" /\ ValidSupport
    /\ Len(arg.w) >= 3
    /\ \E k \in DOMAIN arg.w : arg.w[k] = 0
    /\ Len(arg.u) = 2
    /\ arg.u[1] = 2 /\ arg.u[1] < Total(arg.w)
    /\ arg.u[2] = Total(arg.w)
    /\ ret.rows[2] = <<arg.supp[2], arg.supp[2]>>
    /\ ret.rows[1][1] < ret.rows[1][2]

C13_WitnessInsideBin ==
    /\ pc = "done" /\ ret.kind = "intervals" /\ ValidSupport
    /\ arg.u = <<1>>
    /\ arg.w[1] = 2

\* With the support's right end inside the nodes the call raises.
C13_WitnessElseBranch ==
    /\ pc = "done" /\ ret.kind = "ValueError" /\ arg.w # <<>>
    /\ ~(arg.supp[2] > EighNodes(Len(arg.w))[Len(arg.w)])

---------------------------------------------------------------------------
(* gauss_quadrature_driver and jacobi_matrix_driver: opoly1d.py 12-29 *)

\* Bounds: the rows of the table and the number N of nodes asked for.
MaxTable == 4
MaxNodes == 3

\* lamb, v = eigh(J): the columns of v are orthonormal eigenvectors, so v
\* is an orthogonal matrix.  The model takes v from exact orthogonal
\* matrices m / den with integer m: the signed permutation matrices
\* (den = 1), and those with their first two rows rotated by the angle of
\* the 3-4-5 triangle (den = 5).
SignedPermutations(N) ==
    {[i \in 1..N |-> [j \in 1..N |-> IF perm[i] = j THEN sign[i] ELSE 0]] :
        perm \in Permutations(1..N), sign \in [1..N -> {-1, 1}]}

Rotated(m) ==
    [i \in DOMAIN m |->
        [j \in DOMAIN m |->
            IF i = 1 THEN 3 * m[1][j] + 4 * m[2][j]
            ELSE IF i = 2 THEN 3 * m[2][j] - 4 * m[1][j]
            ELSE 5 * m[i][j]]]

EigenvectorMatrices(N) ==
    {[den |-> 1, m |-> m] : m \in SignedPermutations(N)}
    \cup (IF N >= 2 THEN {[den |-> 5, m |-> Rotated(m)] : m \in SignedPermutations(N)}
          ELSE {})

RECURSIVE SumSeq(_)
SumSeq(w) == IF w = <<>> THEN 0 ELSE w[1] + SumSeq(Tail(w))

\* gauss_quadrature_driver(ab, N) with v = m / den the matrix eigh
\* returned: the number of nodes and the weights ab[0,1]**2 * v[0,:]**2,
\* kept as numerators over den**2.  An empty Jacobi matrix (N = 0) has no
\* row v[0,:].
gauss_quadrature_driverBetaNotSquared(ab, N, v) ==
    LET side == GaussNodes(Len(ab), N)
    IN  IF side = -1 THEN [kind |-> "ValueError"]
        ELSE IF side = 0 THEN [kind |-> "IndexError"]
        ELSE [kind |-> "rule", nodes |-> side,
              weights |-> [j \in 1..side |-> ab[1][2] * v.m[1][j] * v.m[1][j]],
              over |-> v.den * v.den]

gauss_quadrature_driver(ab, N, v) ==
    LET side == GaussNodes(Len(ab), N)
    IN  IF side = -1 THEN [kind |-> "ValueError"]
        ELSE IF side = 0 THEN [kind |-> "IndexError"]
        ELSE [kind |-> "rule", nodes |-> side,
              weights |-> [j \in 1..side |-> ab[1][2] * ab[1][2] * v.m[1][j] * v.m[1][j]],
              over |-> v.den * v.den]

\* The calls explored: a table of 1..MaxTable rows whose beta_0 is -2, 1 or
\* 3, every N up to MaxNodes, and every matrix v of the size of J.
QuadratureTable(rows, beta0) == [i \in 1..rows |-> <<i - 1, IF i = 1 THEN beta0 ELSE i>>]

NoMatrix == [den |-> 1, m |-> <<>>]

InitGq ==
    /\ pc = "call"
    /\ NoInterval
    /\ family = "none"
    /\ NewInstance
    /\ \E rows \in 1..MaxTable, beta0 \in {-2, 1, 3} : heap = <<QuadratureTable(rows, beta0)>>
    /\ \E N \in 0..MaxNodes :
          \E v \in IF GaussNodes(Len(heap[1]), N) >= 1
                   THEN EigenvectorMatrices(GaussNodes(Len(heap[1]), N))
                   ELSE {NoMatrix} :
             arg = [op |-> "gauss_quadrature_driver", N |-> N, v |-> v]

GaussQuadratureDriver ==
    /\ pc = "call"
    /\ arg.op = "gauss_quadrature_driver"
    /\ ret' = gauss_quadrature_driver(heap[1], arg.N, arg.v)
    /\ pc' = "done"
    /\ UNCHANGED <<subVars, family, self_ab, driver_calls, arg, heap>>

NextGq == GaussQuadratureDriver

SpecGq == InitGq /\ [][NextGq]_vars

\* The rule the claim describes: N nodes, N weights, none negative, that
\* sum to beta_0^2.
RuleOfBetaSquared ==
    /\ ret.kind = "rule"
    /\ ret.nodes = arg.N
    /\ Len(ret.weights) = arg.N
    /\ \A j \in DOMAIN ret.weights : ret.weights[j] >= 0
    /\ SumSeq(ret.weights) = heap[1][1][2] * heap[1][1][2] * ret.over

C14_WitnessEmptyRule ==
    /\ pc = "done" /\ arg.N = 0 /\ ret.kind = "IndexError"

---------------------------------------------------------------------------
(* jacobi_matrix and apply_jacobi_matrix: opoly1d.py lines 12-18 and 293-331 *)

\* Bounds: the leading dimension N of v and the number of its trailing
\* index tuples (1 for a vector).
MaxDim == 3
MaxTrailing == 2

\* The numbers a subclass driver puts in row n.  Two families are
\* explored: alpha_n = n, beta_n = n + 1, and alpha_n = 1 - n, beta_n = 2.
AlphaOf(coef, n) == IF coef = 1 THEN n ELSE 1 - n
BetaOf(coef, n) == IF coef = 1 THEN n + 1 ELSE 2

\* ab[k,0] and ab[k,1] of a table returned by recurrence, k counted from 0.
Alpha(coef, rows, k) == AlphaOf(coef, rows[k + 1].n)
Beta(coef, rows, k) == BetaOf(coef, rows[k + 1].n)

\* jacobi_matrix_driver(ab, N), line 18, for a table with at least N+1
\* rows: entry (i, j), counted from 1.
JacobiEntry(coef, rows, i, j) ==
    IF j = i THEN Alpha(coef, rows, i)
    ELSE IF j = i + 1 THEN Beta(coef, rows, i)
    ELSE IF j = i - 1 THEN Beta(coef, rows, j)
    ELSE 0

\* Lines 323-329 on v given as v[i][t], i the leading index and t the
\* trailing index tuple: Jv = v*ab[1:(N+1),0], then the two in-place
\* additions of the neighbours times ab[1:N,1], along the moved axis.
ApplyTridiagonalSubdiagonalShifted(coef, rows, v) ==
    LET N == Len(v)
        Jv0 == [i \in 1..N |-> [t \in DOMAIN v[i] |-> v[i][t] * Alpha(coef, rows, i)]]
        Jv1 == [i \in 1..N |-> [t \in DOMAIN v[i] |->
                   Jv0[i][t] + (IF i <= N - 1 THEN v[i + 1][t] * Beta(coef, rows, i) ELSE 0)]]
    IN  [i \in 1..N |-> [t \in DOMAIN v[i] |->
            Jv1[i][t] + (IF i >= 2 THEN v[i - 1][t] * Beta(coef, rows, i) ELSE 0)]]

ApplyTridiagonal(coef, rows, v) ==
    LET N == Len(v)
        Jv0 == [i \in 1..N |-> [t \in DOMAIN v[i] |-> v[i][t] * Alpha(coef, rows, i)]]
        Jv1 == [i \in 1..N |-> [t \in DOMAIN v[i] |->
                   Jv0[i][t] + (IF i <= N - 1 THEN v[i + 1][t] * Beta(coef, rows, i) ELSE 0)]]
    IN  [i \in 1..N |-> [t \in DOMAIN v[i] |->
            Jv1[i][t] + (IF i >= 2 THEN v[i - 1][t] * Beta(coef, rows, i - 1) ELSE 0)]]

\* apply_jacobi_matrix(v) on the instance, v the object `iv` of the heap:
\* recurrence(N+1), then a new array Jv; v itself is only read.
apply_jacobi_matrix(fam, st, calls, coef, hp, iv) ==
    LET r == recurrence(fam, st, calls, Len(hp[iv]) + 1, 0)
    IN  IF r.ret.kind = "ValueError"
        THEN [ab |-> r.ab, calls |-> r.calls, heap |-> hp, out |-> [kind |-> "ValueError"]]
        ELSE [ab |-> r.ab, calls |-> r.calls,
              heap |-> Append(hp, ApplyTridiagonal(coef, r.ret.rows, hp[iv])),
              out |-> [kind |-> "array", ref |-> Len(hp) + 1]]

\* The calls explored: v with entries -1 and 2.
InitJac ==
    /\ pc = "call"
    /\ NoInterval
    /\ family \in {"base", "subclass"}
    /\ \/ NewInstance
       \/ /\ family # "base"
          /\ \E rows \in 1..(MaxDim + 2) : UsedInstance(rows)
    /\ \E N \in 1..MaxDim, K \in 1..MaxTrailing :
          \E v \in [1..N -> [1..K -> {-1, 2}]] : heap = <<v>>
    /\ arg \in [op : {"apply_jacobi_matrix"}, coef : {1, 2}]

ApplyJacobiMatrix ==
    /\ pc = "call"
    /\ arg.op = "apply_jacobi_matrix"
    /\ LET r == apply_jacobi_matrix(family, self_ab, driver_calls, arg.coef, heap, 1)
       IN  /\ self_ab' = r.ab /\ driver_calls' = r.calls /\ heap' = r.heap /\ ret' = r.out
    /\ pc' = "done"
    /\ UNCHANGED <<subVars, family, arg>>

NextJac == ApplyJacobiMatrix

SpecJac == InitJac /\ [][NextJac]_vars

\* jacobi_matrix(N) of the instance after the call, entry (i, j): the
\* matrix of jacobi_matrix_driver on recurrence(N+1).
JacobiMatrixEntry(N, i, j) ==
    JacobiEntry(arg.coef, recurrence(family, self_ab, driver_calls, N + 1, 0).ret.rows, i, j)

RECURSIVE RowTimesColumn(_, _, _, _, _)
RowTimesColumn(N, i, v, t, j) ==
    IF j > N THEN 0
    ELSE JacobiMatrixEntry(N, i, j) * v[j][t] + RowTimesColumn(N, i, v, t, j + 1)

\* C15: apply_jacobi_matrix(v) equals the product of jacobi_matrix(N) with
\* v along the first dimension, for every trailing index, and v is not
\* modified.
C15_AppliesJacobiMatrix ==
    [][(pc = "call" /\ arg.op = "apply_jacobi_matrix" /\ ret'.kind = "array") =>
          /\ heap'[1] = heap[1]
          /\ ret'.ref # 1
          /\ LET v == heap[1]
                 Jv == heap'[ret'.ref]
             IN  /\ Len(Jv) = Len(v)
                 /\ \A i \in DOMAIN v : \A t \in DOMAIN v[i] :
                       Jv[i][t] = RowTimesColumn(Len(v), i, v, t, 1)']_vars

C15_Witness ==
    /\ pc = "done"
    /\ arg.op = "apply_jacobi_matrix"
    /\ ret.kind = "array"
    /\ Len(heap[1]) = 3
    /\ Len(heap[1][1]) = 2
    /\ heap[1] = <<<<2, -1>>, <<-1, 2>>, <<2, 2>>>>
    /\ arg.coef = 1
    /\ heap[2] = <<<<0, 3>>, <<8, 8>>, <<3, 12>>>>

---------------------------------------------------------------------------
(* Connection matrices: opoly1d.py lines 379-440 *)

\* Bound: the size N of the matrices asked for.
MaxConn == 4

\* Exact fractions <<numerator, denominator>> in lowest terms with a
\* positive denominator stand for the floating-point entries.
RECURSIVE GCD(_, _)
GCD(x, y) == IF y = 0 THEN x ELSE GCD(y, x % y)

Q(n, d) ==
    LET g == GCD(Abs(n), Abs(d))
        s == IF d < 0 THEN -1 ELSE 1
    IN  <<(s * n) \div g, (s * d) \div g>>

FromInt(k) == <<k, 1>>
RAdd(x, y) == Q(x[1] * y[2] + y[1] * x[2], x[2] * y[2])
RSub(x, y) == Q(x[1] * y[2] - y[1] * x[2], x[2] * y[2])
RMul(x, y) == Q(x[1] * y[1], x[2] * y[2])
RDiv(x, y) == Q(x[1] * y[2], x[2] * y[1])

\* np.zeros([N,N]); entry [n,j] of the code is M[n+1][j+1] here.
Zeros(N) == [n \in 1..N |-> [j \in 1..N |-> FromInt(0)]]
At(M, n, j) == M[n + 1][j + 1]
Put(M, n, j, x) ==
    [r \in 1..Len(M) |-> [c \in 1..Len(M[r]) |-> IF r = n + 1 /\ c = j + 1 THEN x ELSE M[r][c]]]
PutRow(M, n, row) == [r \in 1..Len(M) |-> IF r = n + 1 THEN row ELSE M[r]]

RA(coef, rows, k) == FromInt(Alpha(coef, rows, k))
RB(coef, rows, k) == FromInt(Beta(coef, rows, k))

\* Lines 403-410: row n+1 from rows n and n-1, then the division of the
\* whole row by ab[n+1,1].
ConnectionRowUndivided(coef, rows, C, n, N) ==
    LET an == RA(coef, rows, n + 1)
        bn == RB(coef, rows, n)
    IN  [jj \in 1..N |->
           LET j == jj - 1
           IN  IF j = 0
               THEN RSub(RSub(FromInt(0), RMul(an, At(C, n, 0))), RMul(bn, At(C, n - 1, 0)))
               ELSE IF j = n THEN RSub(At(C, n, n - 1), RMul(an, At(C, n, n)))
               ELSE IF j = n + 1 THEN At(C, n, n)
               ELSE IF j < n
               THEN RSub(RSub(At(C, n, j - 1), RMul(an, At(C, n, j))), RMul(bn, At(C, n - 1, j)))
               ELSE At(C, n + 1, j)]

ConnectionRow(coef, rows, C, n, N) ==
    LET row == [jj \in 1..N |->
                  LET j == jj - 1
                      an == RA(coef, rows, n + 1)
                      bn == RB(coef, rows, n)
                  IN  IF j = 0
                      THEN RSub(RSub(FromInt(0), RMul(an, At(C, n, 0))), RMul(bn, At(C, n - 1, 0)))
                      ELSE IF j = n THEN RSub(At(C, n, n - 1), RMul(an, At(C, n, n)))
                      ELSE IF j = n + 1 THEN At(C, n, n)
                      ELSE IF j < n
                      THEN RSub(RSub(At(C, n, j - 1), RMul(an, At(C, n, j))), RMul(bn, At(C, n - 1, j)))
                      ELSE At(C, n + 1, j)]
    IN  [jj \in 1..N |-> RDiv(row[jj], RB(coef, rows, n + 1))]

\* for n in range(1, N-1), line 402.
RECURSIVE ConnectionLoop(_, _, _, _, _)
ConnectionLoop(coef, rows, C, n, N) ==
    IF n >= N - 1 THEN C
    ELSE ConnectionLoop(coef, rows, PutRow(C, n + 1, ConnectionRow(coef, rows, C, n, N)),
                        n + 1, N)

\* canonical_connection(N), lines 389-412.
canonical_connection(fam, st, calls, coef, N) ==
    LET r == recurrence(fam, st, calls, N, 0)
        rows == r.ret.rows
        C0 == Zeros(N)
        C1 == Put(C0, 0, 0, RDiv(FromInt(1), RB(coef, rows, 0)))
        C2 == Put(Put(C1, 1, 1, RDiv(At(C1, 0, 0), RB(coef, rows, 1))),
                  1, 0, RDiv(RMul(RSub(FromInt(0), RA(coef, rows, 1)), At(C1, 0, 0)),
                             RB(coef, rows, 1)))
    IN  IF r.ret.kind = "ValueError"
        THEN [ab |-> r.ab, calls |-> r.calls, out |-> [kind |-> "ValueError"]]
        ELSE [ab |-> r.ab, calls |-> r.calls,
              out |-> [kind |-> "matrix",
                       rows |-> IF N < 1 THEN C0
                                ELSE IF N = 1 THEN C1
                                ELSE ConnectionLoop(coef, rows, C2, 1, N)]]

\* Line 438: C[n+1,:] = self.apply_jacobi_matrix(C[n,:]), a call that asks
\* the instance for recurrence(N+1).  The entries are fractions with
\* denominator 1 throughout; the vector is passed as an N x 1 array.
RECURSIVE InverseLoop(_, _, _, _, _, _, _)
InverseLoop(fam, st, calls, coef, C, n, N) ==
    IF n >= N - 1 THEN [ab |-> st, calls |-> calls, rows |-> C]
    ELSE LET v == [i \in 1..N |-> <<C[n + 1][i][1]>>]
             r == apply_jacobi_matrix(fam, st, calls, coef, <<v>>, 1)
             Jv == r.heap[r.out.ref]
         IN  InverseLoop(fam, r.ab, r.calls, coef,
                         PutRow(C, n + 1, [i \in 1..N |-> FromInt(Jv[i][1])]), n + 1, N)

\* canonical_connection_inverse(N), lines 424-440.
canonical_connection_inverse(fam, st, calls, coef, N) ==
    LET r == recurrence(fam, st, calls, N, 0)
        rows == r.ret.rows
        C0 == Zeros(N)
        C1 == Put(C0, 0, 0, RB(coef, rows, 0))
        C2 == Put(Put(C1, 1, 1, RMul(RB(coef, rows, 0), RB(coef, rows, 1))),
                  1, 0, RMul(RA(coef, rows, 1), RB(coef, rows, 0)))
        l == InverseLoop(fam, r.ab, r.calls, coef, C2, 1, N)
    IN  IF r.ret.kind = "ValueError"
        THEN [ab |-> r.ab, calls |-> r.calls, out |-> [kind |-> "ValueError"]]
        ELSE IF N < 1 THEN [ab |-> r.ab, calls |-> r.calls, out |-> [kind |-> "matrix", rows |-> C0]]
        ELSE IF N = 1 THEN [ab |-> r.ab, calls |-> r.calls, out |-> [kind |-> "matrix", rows |-> C1]]
        ELSE [ab |-> l.ab, calls |-> l.calls, out |-> [kind |-> "matrix", rows |-> l.rows]]

\* Bound: the derivative order d.
MaxDerivative == 2

\* np.zeros([R, K]) and np.eye(K)[:R,:].
ZerosOf(R, K) == [n \in 1..R |-> [j \in 1..K |-> FromInt(0)]]
EyeRows(R, K) == [n \in 1..R |-> [j \in 1..K |-> FromInt(IF n = j THEN 1 ELSE 0)]]
DropLastColumn(M) == [n \in 1..Len(M) |-> [j \in 1..(Len(M[n]) - 1) |-> M[n][j]]]

\* apply_jacobi_matrix on a one-dimensional array of floats, lines 326-328.
ApplyTridiagonalFloat(coef, rows, v) ==
    LET K == Len(v)
    IN  [i \in 1..K |->
           RAdd(RAdd(RMul(v[i], RA(coef, rows, i)),
                     IF i <= K - 1 THEN RMul(v[i + 1], RB(coef, rows, i)) ELSE FromInt(0)),
                IF i >= 2 THEN RMul(v[i - 1], RB(coef, rows, i - 1)) ELSE FromInt(0))]

RECURSIVE Factorial(_)
Factorial(k) == IF k <= 0 THEN 1 ELSE k * Factorial(k - 1)

RECURSIVE ProductOfBetas(_, _, _, _)
ProductOfBetas(coef, rows, lo, hi) ==
    IF lo > hi THEN 1 ELSE Beta(coef, rows, lo) * ProductOfBetas(coef, rows, lo + 1, hi)

\* Line 577: exp(gammaln(dj+1) - sum(log(ab[1:(dj+1),1]))), for positive
\* ab[.,1], is dj! / (ab[1,1] * ... * ab[dj,1]).
LeadingDerivative(coef, rows, dj) == Q(Factorial(dj), ProductOfBetas(coef, rows, 1, dj))

\* Lines 579-580: for n in range(dj, N-1), each step a call of
\* apply_jacobi_matrix on row n, which asks for recurrence(len(row)+1).
RECURSIVE DerivativeRows(_, _, _, _, _, _, _, _, _, _)
DerivativeRows(fam, st, calls, coef, rows, C, Cprev, dj, n, N) ==
    IF n >= N - 1 THEN [ab |-> st, calls |-> calls, rows |-> C]
    ELSE LET K == Len(C[n + 1])
             r == recurrence(fam, st, calls, K + 1, 0)
             Jv == ApplyTridiagonalFloat(coef, r.ret.rows, C[n + 1])
             row == [j \in 1..K |->
                       RMul(RDiv(FromInt(1), RB(coef, rows, n + 1)),
                            RAdd(RSub(RSub(Jv[j], RMul(RA(coef, rows, n + 1), C[n + 1][j])),
                                      RMul(RB(coef, rows, n), C[n][j])),
                                 RMul(FromInt(dj), Cprev[n + 1][j])))]
         IN  DerivativeRows(fam, r.ab, r.calls, coef, rows, PutRow(C, n + 1, row), Cprev,
                            dj, n + 1, N)

\* Lines 574-580: for dj in range(1, d+1).  C[dj,0] of an array with N
\* rows does not exist when dj >= N.
RECURSIVE DerivativeLoop(_, _, _, _, _, _, _, _, _)
DerivativeLoop(fam, st, calls, coef, rows, C, dj, d, N) ==
    IF dj > d THEN [ab |-> st, calls |-> calls, out |-> [kind |-> "matrix", rows |-> DropLastColumn(C)]]
    ELSE IF dj >= N THEN [ab |-> st, calls |-> calls, out |-> [kind |-> "IndexError"]]
    ELSE LET Cprev == DropLastColumn(C)
             C0 == Put(ZerosOf(N, N + d + 1 - dj), dj, 0, LeadingDerivative(coef, rows, dj))
             l == DerivativeRows(fam, st, calls, coef, rows, C0, Cprev, dj, dj, N)
         IN  DerivativeLoop(fam, l.ab, l.calls, coef, rows, l.rows, dj + 1, d, N)

\* derivative_expansion(N, d) for N >= 0 and d >= 0, lines 562-582; for
\* N = 0 the result is the one-dimensional np.zeros(0).
derivative_expansion(fam, st, calls, coef, N, d) ==
    IF N = 0 THEN [ab |-> st, calls |-> calls, out |-> [kind |-> "vector", rows |-> <<>>]]
    ELSE IF d = 0 THEN [ab |-> st, calls |-> calls, out |-> [kind |-> "matrix", rows |-> EyeRows(N, N)]]
    ELSE LET r == recurrence(fam, st, calls, N + 1, 0)
         IN  IF r.ret.kind = "ValueError"
             THEN [ab |-> r.ab, calls |-> r.calls, out |-> [kind |-> "ValueError"]]
             ELSE DerivativeLoop(fam, r.ab, r.calls, coef, r.ret.rows,
                                 EyeRows(N, N + d + 1), 1, d, N)

\* np.cumprod of a one-dimensional array.
RECURSIVE CumProd(_, _)
CumProd(v, k) ==
    IF k = 0 THEN <<>>
    ELSE IF k = 1 THEN <<v[1]>>
    ELSE LET c == CumProd(v, k - 1) IN Append(c, RMul(c[k - 1], v[k]))

\* leading_coefficient(N), lines 376-377: the cumulative product runs
\* over every row that recurrence(N) returns.
leading_coefficient(fam, st, calls, coef, N) ==
    IF ~(N > 0) THEN [ab |-> st, calls |-> calls, out |-> [kind |-> "AssertionError"]]
    ELSE LET r == recurrence(fam, st, calls, N, 0)
             rows == r.ret.rows
             inv == [k \in 1..Len(rows) |-> RDiv(FromInt(1), RB(coef, rows, k - 1))]
         IN  IF r.ret.kind = "ValueError"
             THEN [ab |-> r.ab, calls |-> r.calls, out |-> [kind |-> "ValueError"]]
             ELSE [ab |-> r.ab, calls |-> r.calls,
                   out |-> [kind |-> "vector", rows |-> CumProd(inv, Len(inv))]]

ConnOps == {"canonical_connection", "canonical_connection_inverse"}

InitConn ==
    /\ pc = "call"
    /\ NoInterval
    /\ heap = <<>>
    /\ family \in {"base", "subclass"}
    /\ \/ NewInstance
       \/ /\ family # "base"
          /\ \E rows \in 1..(MaxConn + 2) : UsedInstance(rows)
    /\ arg \in [op : ConnOps \cup {"leading_coefficient"}, coef : {1, 2}, N : 0..MaxConn, d : {0}]
               \cup [op : {"derivative_expansion"}, coef : {1, 2}, N : 0..MaxConn,
                     d : 0..MaxDerivative]

CanonicalConnection ==
    /\ pc = "call"
    /\ arg.op = "canonical_connection"
    /\ LET r == canonical_connection(family, self_ab, driver_calls, arg.coef, arg.N)
       IN  /\ self_ab' = r.ab /\ driver_calls' = r.calls /\ ret' = r.out
    /\ pc' = "done"
    /\ UNCHANGED <<subVars, family, arg, heap>>

CanonicalConnectionInverse ==
    /\ pc = "call"
    /\ arg.op = "canonical_connection_inverse"
    /\ LET r == canonical_connection_inverse(family, self_ab, driver_calls, arg.coef, arg.N)
       IN  /\ self_ab' = r.ab /\ driver_calls' = r.calls /\ ret' = r.out
    /\ pc' = "done"
    /\ UNCHANGED <<subVars, family, arg, heap>>

DerivativeExpansion ==
    /\ pc = "call"
    /\ arg.op = "derivative_expansion"
    /\ LET r == derivative_expansion(family, self_ab, driver_calls, arg.coef, arg.N, arg.d)
       IN  /\ self_ab' = r.ab /\ driver_calls' = r.calls /\ ret' = r.out
    /\ pc' = "done"
    /\ UNCHANGED <<subVars, family, arg, heap>>

LeadingCoefficient ==
    /\ pc = "call"
    /\ arg.op = "leading_coefficient"
    /\ LET r == leading_coefficient(family, self_ab, driver_calls, arg.coef, arg.N)
       IN  /\ self_ab' = r.ab /\ driver_calls' = r.calls /\ ret' = r.out
    /\ pc' = "done"
    /\ UNCHANGED <<subVars, family, arg, heap>>

NextConn ==
    \/ CanonicalConnection
    \/ CanonicalConnectionInverse
    \/ DerivativeExpansion
    \/ LeadingCoefficient

SpecConn == InitConn /\ [][NextConn]_vars

IsSquare(M, N) == Len(M) = N /\ \A n \in 1..N : Len(M[n]) = N

LowerTriangular(M) ==
    \A n \in DOMAIN M : \A j \in DOMAIN M[n] : j > n => M[n][j] = FromInt(0)

RECURSIVE DotFrom(_, _, _, _, _)
DotFrom(A, B, n, j, k) ==
    IF k > Len(B) THEN FromInt(0)
    ELSE RAdd(RMul(A[n][k], B[k][j]), DotFrom(A, B, n, j, k + 1))

IsIdentityProduct(A, B) ==
    \A n \in DOMAIN A : \A j \in DOMAIN A :
        DotFrom(A, B, n, j, 1) = FromInt(IF n = j THEN 1 ELSE 0)

\* The other connection matrix of the same size, asked of the instance
\* in the state after the call.
OtherConnection ==
    IF arg.op = "canonical_connection"
    THEN canonical_connection_inverse(family, self_ab, driver_calls, arg.coef, arg.N).out.rows
    ELSE canonical_connection(family, self_ab, driver_calls, arg.coef, arg.N).out.rows

\* C16: for every N >= 1, canonical_connection(N) and
\* canonical_connection_inverse(N) are lower-triangular N x N matrices
\* whose products, in both orders, are the identity.
C16_ConnectionsAreInverses ==
    (pc = "done" /\ arg.op \in ConnOps /\ arg.N >= 1 /\ family = "subclass") =>
        /\ ret.kind = "matrix"
        /\ IsSquare(ret.rows, arg.N)
        /\ LowerTriangular(ret.rows)
        /\ IsIdentityProduct(ret.rows, OtherConnection)
        /\ IsIdentityProduct(OtherConnection, ret.rows)

C16_Witness ==
    /\ pc = "done"
    /\ arg.op = "canonical_connection"
    /\ arg.N = 4
    /\ arg.coef = 1
    /\ ret.kind = "matrix"
    /\ At(ret.rows, 3, 3) = <<1, 24>>
    /\ At(ret.rows, 2, 0) # FromInt(0)

C16_WitnessInverse ==
    /\ pc = "done"
    /\ arg.op = "canonical_connection_inverse"
    /\ arg.N = 4
    /\ arg.coef = 1
    /\ ret.kind = "matrix"
    /\ At(ret.rows, 3, 3) = <<24, 1>>
    /\ At(ret.rows, 3, 1) # FromInt(0)

DerivativeCall(N, d) ==
    /\ pc = "done"
    /\ arg.op = "derivative_expansion"
    /\ family = "subclass"
    /\ arg.N = N
    /\ arg.d = d

DerivativeShape(N, d) ==
    /\ ret.kind = "matrix"
    /\ IsSquare(ret.rows, N)
    /\ d = 0 => ret.rows = EyeRows(N, N)
    /\ d >= 1 => \A n \in 0..(N - 1) : n < d => \A j \in 0..(N - 1) : At(ret.rows, n, j) = FromInt(0)

\* C17: derivative_expansion(N, d) returns an N x N matrix for every
\* N >= 1 and every d >= 0, d >= N included: the identity when d = 0, and
\* with every row n < d zero when d >= 1.
C17_DerivativeExpansionShape ==
    \A N \in 1..(MaxConn + 1), d \in 0..(MaxDerivative + 1) :
        DerivativeCall(N, d) => DerivativeShape(N, d)

\* What the code does: the matrix is returned when d < N, and for
\* 1 <= N <= d the call raises IndexError.
DerivativeExpansionBelowN ==
    \A N \in 1..(MaxConn + 1), d \in 0..(MaxDerivative + 1) :
        DerivativeCall(N, d) =>
            IF d < N THEN DerivativeShape(N, d) ELSE ret.kind = "IndexError"

C17_WitnessRaises ==
    /\ DerivativeCall(1, 1)
    /\ ret.kind = "IndexError"

C17_WitnessReturns ==
    /\ DerivativeCall(4, 2)
    /\ arg.coef = 1
    /\ ret.kind = "matrix"
    /\ At(ret.rows, 2, 0) = <<1, 3>>
    /\ At(ret.rows, 3, 1) # FromInt(0)

LeadingCall ==
    /\ pc = "done"
    /\ arg.op = "leading_coefficient"
    /\ family = "subclass"

\* The table the instance returns for recurrence(N) after the call.
TableOf(N) == recurrence(family, self_ab, driver_calls, N, 0).ret.rows

LeadingValues(count) ==
    /\ ret.kind = "vector"
    /\ Len(ret.rows) = count
    /\ \A n \in 0..(count - 1) :
          ret.rows[n + 1] = Q(1, ProductOfBetas(arg.coef, TableOf(count), 0, n))

\* C18: leading_coefficient(N) requires N > 0 and returns exactly N
\* values, the n-th being the product of 1/beta_j for j = 0..n.
C18_LeadingCoefficientCount ==
    LeadingCall =>
        IF arg.N > 0 THEN LeadingValues(arg.N) ELSE ret.kind = "AssertionError"

\* What the code does: N + 1 values, for p_0 .. p_N.
LeadingCoefficientOneMore ==
    LeadingCall =>
        IF arg.N > 0 THEN LeadingValues(arg.N + 1) ELSE ret.kind = "AssertionError"

C18_Witness ==
    /\ LeadingCall
    /\ arg.N = 1
    /\ arg.coef = 1
    /\ ret.kind = "vector"
    /\ ret.rows = <<<<1, 1>>, <<1, 2>>>>

---------------------------------------------------------------------------
(* r_eval against eval: opoly1d.py lines 206-243 and 584-626 *)

\* Bounds: the largest degree asked for, the number of degrees in n and
\* the number of points of a one-dimensional x.
MaxRatio == 3
MaxDegrees == 2
MaxPoints == 2

\* An infinity, which is what numpy's division of a non-zero float by 0.
\* gives (with a warning); its sign is not tracked.
Inf == <<1, 0>>

\* Lines 233-239 at one point x: p[0..nmax].
RECURSIVE PolyValues(_, _, _, _)
PolyValues(coef, rows, x, j) ==
    IF j = 0 THEN <<RDiv(FromInt(1), RB(coef, rows, 0))>>
    ELSE LET p == PolyValues(coef, rows, x, j - 1)
         IN  IF j = 1
             THEN Append(p, RMul(RDiv(FromInt(1), RB(coef, rows, 1)),
                                 RMul(RSub(FromInt(x), RA(coef, rows, 1)), p[1])))
             ELSE Append(p, RMul(RDiv(FromInt(1), RB(coef, rows, j)),
                                 RSub(RMul(RSub(FromInt(x), RA(coef, rows, j)), p[j]),
                                      RMul(RB(coef, rows, j - 1), p[j - 1]))))

\* Line 618 at one point: r[j] from r[j-1].  ab[j-1,1] is positive, so
\* the quotient ab[j-1,1]/r[j-1] is an infinity for r[j-1] = 0 and 0. for
\* an infinite r[j-1].
RatioStep(coef, rows, x, j, prev) ==
    IF prev = FromInt(0) THEN Inf
    ELSE LET quotient == IF prev = Inf THEN FromInt(0) ELSE RDiv(RB(coef, rows, j - 1), prev)
         IN  RMul(RDiv(FromInt(1), RB(coef, rows, j)),
                  RSub(RSub(FromInt(x), RA(coef, rows, j)), quotient))

\* Lines 613-618 at one point x: r[0..nmax].
RECURSIVE RatioValues(_, _, _, _)
RatioValues(coef, rows, x, j) ==
    IF j = 0 THEN <<RDiv(FromInt(1), RB(coef, rows, 0))>>
    ELSE LET r == RatioValues(coef, rows, x, j - 1)
         IN  IF j = 1
             THEN Append(r, RMul(RDiv(FromInt(1), RB(coef, rows, 1)),
                                 RSub(FromInt(x), RA(coef, rows, 1))))
             ELSE Append(r, RatioStep(coef, rows, x, j, r[j]))

RatioOutcome(kind, shape, values) == [kind |-> kind, shape |-> shape, values |-> values]

\* Lines 610-624 for x of shape (M,): r is M x (nmax+1), filled column by
\* column, and r[:,n.flatten()] is M x n.size.
RatioFlat(coef, rows, pts, n) ==
    LET nmax == Max(Range(n))
    IN  RatioOutcome("array", <<Len(pts), Len(n)>>,
                     [i \in 1..Len(pts) |->
                        [k \in 1..Len(n) |-> RatioValues(coef, rows, pts[i], nmax)[n[k] + 1]]])

\* Lines 610-624 for x of shape (R, K): r = np.zeros(x.shape + (nmax+1,))
\* has three axes and r[:,j] is r[:,j,:], of shape (R, nmax+1).  Line 615
\* assigns an array of shape (R, K) to it, line 618 combines xf of shape
\* (R*K,) with r[:,j-1], and line 620 indexes the second axis.
RatioMatrix(R, K, n) ==
    LET nmax == Max(Range(n))
    IN  IF nmax > 0 /\ K < 2 THEN RatioOutcome("IndexError", <<>>, <<>>)
        ELSE IF nmax > 0 /\ K # nmax + 1 THEN RatioOutcome("ValueError", <<>>, <<>>)
        ELSE IF nmax >= 2 /\ R # 1 THEN RatioOutcome("ValueError", <<>>, <<>>)
        ELSE RatioOutcome("array", <<R, Len(n), nmax + 1>>, <<>>)

\* r_eval(x, n) with d = 0, lines 593-624.  x is a Python float, or an
\* array of shape x.shape holding the points x.pts; n is a list of
\* degrees.
ratio_eval(fam, st, calls, coef, x, n) ==
    LET shape == IF x.kind = "float" THEN <<1>> ELSE x.shape
        size == IF Len(shape) = 1 THEN shape[1] ELSE shape[1] * shape[2]
    IN  IF Len(n) < 1 \/ size < 1
        THEN [ab |-> st, calls |-> calls, out |-> RatioOutcome("array", <<0>>, <<>>)]
        ELSE LET nmax == Max(Range(n))
                 r == recurrence(fam, st, calls, nmax + 1, 0)
             IN  IF r.ret.kind = "ValueError"
                 THEN [ab |-> r.ab, calls |-> r.calls, out |-> RatioOutcome("ValueError", <<>>, <<>>)]
                 ELSE IF ~(nmax < Len(r.ret.rows)) \/ ~(Min(Range(n)) > -1)
                 THEN [ab |-> r.ab, calls |-> r.calls,
                       out |-> RatioOutcome("AssertionError", <<>>, <<>>)]
                 ELSE [ab |-> r.ab, calls |-> r.calls,
                       out |-> IF Len(shape) = 1
                               THEN RatioFlat(coef, r.ret.rows, x.pts, n)
                               ELSE RatioMatrix(shape[1], shape[2], n)]

\* The points explored include the root of p_1 of either family.
Points == 0..2

Xs ==
    [kind : {"float"}, shape : {<<>>}, pts : {<<v>> : v \in Points}]
    \cup UNION {[kind : {"array"}, shape : {<<M>>}, pts : [1..M -> Points]] : M \in 0..MaxPoints}
    \cup UNION {[kind : {"array"}, shape : {<<R, K>>}, pts : {[i \in 1..(R * K) |-> 2]}] :
                R \in 1..2, K \in 1..2}

RatioDegrees == SeqsUpTo((-1)..MaxRatio, MaxDegrees)

InitRatio ==
    /\ pc = "call"
    /\ NoInterval
    /\ heap = <<>>
    /\ family \in {"base", "subclass"}
    /\ \/ NewInstance
       \/ /\ family # "base"
          /\ \E rows \in 1..(MaxRatio + 2) : UsedInstance(rows)
    /\ arg \in [op : {"r_eval"}, coef : {1, 2}, x : Xs, n : RatioDegrees]

REvalCall ==
    /\ pc = "call"
    /\ arg.op = "r_eval"
    /\ LET r == ratio_eval(family, self_ab, driver_calls, arg.coef, arg.x, arg.n)
       IN  /\ self_ab' = r.ab /\ driver_calls' = r.calls /\ ret' = r.out
    /\ pc' = "done"
    /\ UNCHANGED <<subVars, family, arg, heap>>

NextRatio == REvalCall

SpecRatio == InitRatio /\ [][NextRatio]_vars

\* eval(x, n)[i] / eval(x, n-1)[i] at point i, from the instance's table
\* after the call.
NonZeroBelow(x, n) ==
    \A j \in 0..(n - 1) : PolyValues(arg.coef, TableOf(n), x, n)[j + 1] # FromInt(0)

EvalQuotient(x, n) ==
    LET p == PolyValues(arg.coef, TableOf(n), x, n)
    IN  RDiv(p[n + 1], p[n])

RatioCall ==
    /\ pc = "done"
    /\ arg.op = "r_eval"
    /\ family = "subclass"
    /\ Len(arg.n) >= 1
    /\ \A k \in DOMAIN arg.n : arg.n[k] >= 1
    /\ Len(arg.x.pts) >= 1

RatioIsQuotient ==
    /\ ret.kind = "array"
    /\ ret.shape = <<Len(arg.x.pts), Len(arg.n)>>
    /\ \A i \in DOMAIN arg.x.pts : \A k \in DOMAIN arg.n :
          NonZeroBelow(arg.x.pts[i], arg.n[k]) =>
              ret.values[i][k] = EvalQuotient(arg.x.pts[i], arg.n[k])

\* C19: for every degree n >= 1 and every x at which p_0 .. p_{n-1} are
\* non-zero, r_eval(x, n) is the x.size by n.size array of the quotients
\* eval(x, n) / eval(x, n-1).
C19_RatioOfEvaluations ==
    RatioCall => RatioIsQuotient

\* What the code does: the claim's array for a float x and for x with one
\* axis.
RatioOfEvaluationsOneAxis ==
    (RatioCall /\ Len(arg.x.shape) <= 1) => RatioIsQuotient

C19_WitnessThreeAxes ==
    /\ RatioCall
    /\ arg.x.shape = <<2, 2>>
    /\ arg.n = <<1>>
    /\ ret.kind = "array"
    /\ ret.shape = <<2, 1, 2>>

C19_WitnessQuotient ==
    /\ RatioCall
    /\ arg.x.shape = <<2>>
    /\ arg.x.pts = <<2, 0>>
    /\ arg.n = <<3, 2>>
    /\ arg.coef = 1
    /\ ret.kind = "array"
    /\ NonZeroBelow(2, 3)
    /\ ret.values[1][1] = EvalQuotient(2, 3)
    /\ ret.values[1][1] # FromInt(0)

---------------------------------------------------------------------------
(* eval_integral and eval_disc_integral: composite.py lines 425-459, 726-745 *)

\* Bounds: N_start, N_step, and the number of estimates after which the
\* exploration of a call stops.
MaxStart == 2
MaxStep == 2
MaxEstimates == 4

\* An estimate np.sum(...) is a float: a number, here on the integer grid,
\* or nan (a weight or integrand that is nan at a node makes the sum nan).
Num(v) == [nan |-> FALSE, v |-> v]
NaN == [nan |-> TRUE, v |-> 0]
Estimates == {Num(0), Num(1), Num(3), NaN}
Tols == {0, 1}

\* np.abs(s - s_new) > self.tol, lines 448 and 738: a comparison with nan
\* is False.
FartherOrEqual(s, s_new, tol) ==
    IF s.nan \/ s_new.nan THEN FALSE ELSE Abs(s.v - s_new.v) >= tol

Farther(s, s_new, tol) ==
    IF s.nan \/ s_new.nan THEN FALSE ELSE Abs(s.v - s_new.v) > tol

\* Lines 430 and 728: the first requested order.
FirstOrder(op, zeros, N_start) ==
    IF op = "eval_integral" THEN zeros + N_start ELSE N_start

Running(N_quad, s, s_new) ==
    [kind |-> "running", N_quad |-> N_quad, s |-> s, s_new |-> s_new]

\* One estimate: find_jacobi / find_disc_jacobi at order N_quad, the
\* modifications, gauss_quadrature_driver and the sum.  The log of the
\* estimates computed so far is kept in heap.
Logged(N_quad, s) == Append(heap, [order |-> N_quad, value |-> s])

InitInt ==
    /\ pc = "call"
    /\ NoInterval
    /\ family = "none"
    /\ NewInstance
    /\ heap = <<>>
    /\ \E op \in {"eval_integral", "eval_disc_integral"}, zeros \in 0..MaxZeros,
          N_start \in 1..MaxStart, N_step \in 1..MaxStep, tol \in Tols, bound \in BOOLEAN :
          /\ op = "eval_disc_integral" => zeros = 0
          /\ arg = [op |-> op, zeros |-> zeros, N_start |-> N_start, N_step |-> N_step,
                    tol |-> tol, bound |-> bound]

\* Lines 430-437 (728-731).  find_jacobi and find_disc_jacobi construct a
\* JacobiPolynomials in each of their branches; the name is not imported
\* by composite.py, and the call raises NameError unless the name has been
\* bound in the module.
FirstEstimate ==
    /\ pc = "call"
    /\ IF ~arg.bound
       THEN /\ ret' = [kind |-> "NameError"]
            /\ pc' = "done"
            /\ UNCHANGED heap
       ELSE \E s \in Estimates :
               LET N_quad == FirstOrder(arg.op, arg.zeros, arg.N_start)
               IN  /\ heap' = Logged(N_quad, s)
                   /\ ret' = Running(N_quad, s, s)
                   /\ pc' = "second"
    /\ UNCHANGED <<subVars, family, self_ab, driver_calls, arg>>

\* Lines 439-446 (733-736).
SecondEstimate ==
    /\ pc = "second"
    /\ \E s_new \in Estimates :
          LET N_quad == ret.N_quad + arg.N_step
          IN  /\ heap' = Logged(N_quad, s_new)
              /\ ret' = Running(N_quad, ret.s, s_new)
    /\ pc' = "while"
    /\ UNCHANGED <<subVars, family, self_ab, driver_calls, arg>>

\* Lines 448-457 (738-743): the loop test is true and the body runs.
Refine ==
    /\ pc = "while"
    /\ Farther(ret.s, ret.s_new, arg.tol)
    /\ Len(heap) < MaxEstimates
    /\ \E s_new \in Estimates :
          LET N_quad == ret.N_quad + arg.N_step
          IN  /\ heap' = Logged(N_quad, s_new)
              /\ ret' = Running(N_quad, ret.s_new, s_new)
    /\ UNCHANGED <<pc, subVars, family, self_ab, driver_calls, arg>>

\* Lines 448 and 459 (738 and 745): the loop test is false, return s_new.
Return ==
    /\ pc = "while"
    /\ ~Farther(ret.s, ret.s_new, arg.tol)
    /\ ret' = [kind |-> "value", value |-> ret.s_new]
    /\ pc' = "done"
    /\ UNCHANGED <<subVars, family, self_ab, driver_calls, arg, heap>>

NextInt ==
    \/ FirstEstimate
    \/ SecondEstimate
    \/ Refine
    \/ Return

SpecInt == InitInt /\ [][NextInt]_vars

IntegralCall == arg.op \in {"eval_integral", "eval_disc_integral"}

OrdersStepped ==
    \A k \in DOMAIN heap :
        heap[k].order = FirstOrder(arg.op, arg.zeros, arg.N_start) + (k - 1) * arg.N_step

Within(k) ==
    /\ ~heap[k].value.nan
    /\ ~heap[k - 1].value.nan
    /\ Abs(heap[k].value.v - heap[k - 1].value.v) <= arg.tol

\* C20: the estimates are computed at orders len(zeros)+N_start, then
\* N_step more for each further one; a call never ends with fewer than two
\* estimates, and it returns the latest estimate exactly at the first
\* point where the latest two differ by at most tol.
C20_ReturnsAtFirstAgreement ==
    IntegralCall =>
        /\ OrdersStepped
        /\ pc = "done" =>
              /\ Len(heap) >= 2
              /\ ret.kind = "value"
              /\ ret.value = heap[Len(heap)].value
              /\ Within(Len(heap))
              /\ \A k \in 2..(Len(heap) - 1) : ~Within(k)

\* What the code does: no estimate at all when JacobiPolynomials is not
\* bound; otherwise at least two, and the return comes at the first pair
\* for which `abs(s - s_new) > tol` is false, which a nan estimate makes
\* false as well.
ReturnsWhenNotFarther ==
    IntegralCall =>
        /\ OrdersStepped
        /\ (pc = "done" /\ ret.kind # "value") => (~arg.bound /\ heap = <<>>)
        /\ (pc = "done" /\ ret.kind = "value") =>
              /\ arg.bound
              /\ Len(heap) >= 2
              /\ ret.value = heap[Len(heap)].value
              /\ ~Farther(heap[Len(heap) - 1].value, heap[Len(heap)].value, arg.tol)
              /\ \A k \in 2..(Len(heap) - 1) :
                    Farther(heap[k - 1].value, heap[k].value, arg.tol)
              /\ (\A k \in DOMAIN heap : ~heap[k].value.nan) => Within(Len(heap))

C20_WitnessNoEstimate ==
    /\ IntegralCall
    /\ pc = "done"
    /\ ret.kind = "NameError"
    /\ heap = <<>>

C20_WitnessNaN ==
    /\ IntegralCall
    /\ pc = "done"
    /\ ret.kind = "value"
    /\ ret.value = NaN
    /\ Len(heap) = 3

C20_WitnessThirdEstimate ==
    /\ IntegralCall
    /\ arg.op = "eval_integral"
    /\ arg.zeros = 2
    /\ pc = "done"
    /\ ret.kind = "value"
    /\ ret.value = Num(1)
    /\ Len(heap) = 3
    /\ heap[3].order = 2 + arg.N_start + 2 * arg.N_step

---------------------------------------------------------------------------
(* Termination of the refinement loop: composite.py lines 448-459, 738-745 *)

\* The scheduler of a call is the Python interpreter: a statement that can
\* run does run.
SpecIntFair == SpecInt /\ WF_vars(NextInt)

AtLoopTest == IntegralCall /\ pc = "while"

Agree(s, s_new) == ~s.nan /\ ~s_new.nan /\ Abs(s.v - s_new.v) <= arg.tol

\* C21 as stated: the loop is left if and only if the two latest
\* estimates differ by at most tol.
C21_LeavesIffAgreement ==
    [][AtLoopTest => (pc' = "done" <=> Agree(ret.s, ret.s_new))]_vars

\* C21: the loop has no iteration cap and no failure outcome; it is left,
\* returning s_new, exactly when the two latest estimates differ by at most
\* tol or one of them is nan, and a call at the loop test with such a pair
\* does return.
C21_LeavesIffNotFarther ==
    /\ [][AtLoopTest =>
             /\ pc' = "done" <=> (Agree(ret.s, ret.s_new) \/ ret.s.nan \/ ret.s_new.nan)
             /\ pc' = "done" => ret' = [kind |-> "value", value |-> ret.s_new]
             /\ pc' # "done" => (pc' = "while" /\ Len(heap') = Len(heap) + 1)]_vars
    /\ (AtLoopTest /\ (Agree(ret.s, ret.s_new) \/ ret.s.nan \/ ret.s_new.nan)) ~> (pc = "done")

\* Still in the loop after MaxEstimates estimates of which no two
\* successive ones agree, with no error reported.
C21_Witness ==
    /\ AtLoopTest
    /\ Len(heap) = MaxEstimates
    /\ ret.kind = "running"
    /\ \A k \in 2..Len(heap) : ~heap[k].value.nan /\ ~heap[k - 1].value.nan
                                /\ Abs(heap[k].value.v - heap[k - 1].value.v) > arg.tol

C21_WitnessLeftOnNaN ==
    /\ IntegralCall
    /\ pc = "done"
    /\ ret.kind = "value"
    /\ Len(heap) = 3
    /\ heap[3].value = NaN
    /\ ~heap[1].value.nan /\ ~heap[2].value.nan

---------------------------------------------------------------------------
(* Walks over an unbounded domain: composite.py lines 109-164, 462-504,
   747-786 *)

\* Bound: the number of extension intervals in one direction after which
\* the exploration of a call stops.
MaxWalk == 2

\* Integral values are on a grid of halves: the float 1. that the code
\* assigns to Q_minus, Q_plus and integral_new before each loop is 2.
Sentinel == 2
WalkTols == {1, 2}
WalkOps == {"eval_extend", "eval_disc_extend", "gq_modification_unbounded_composite"}

\* s + Q for floats.
Plus(x, y) == IF x.nan \/ y.nan THEN NaN ELSE Num(x.v + y.v)

\* np.abs(Q) > tol, lines 128, 136, 471, 478, ...
KeepWalking(inc, tol) == IF inc.nan THEN FALSE ELSE Abs(inc.v) > tol

Walking(l, r, s, inc) == [kind |-> "running", l |-> l, r |-> r, s |-> s, Q |-> inc]

\* One integral over [l, r]: eval_integral, eval_disc_integral or
\* gq_modification_composite.  The log of the intervals integrated so far
\* is kept in heap.
Integrated(dir, l, r, v) == Append(heap, [dir |-> dir, l |-> l, r |-> r, value |-> v])

Taken(dir) == Cardinality({k \in DOMAIN heap : heap[k].dir = dir})

\* The domains explored; the steps are 1 or 2.
WalkDomains == {<<NegInf, PosInf>>, <<NegInf, 0>>, <<0, PosInf>>, <<0, 1>>}

InitWalk ==
    /\ pc = "call"
    /\ NoInterval
    /\ family = "none"
    /\ NewInstance
    /\ heap = <<>>
    /\ \E op \in WalkOps, dom \in WalkDomains, l_step \in 1..2, r_step \in 1..2,
          tol \in WalkTols, bound \in BOOLEAN :
          /\ op = "gq_modification_unbounded_composite" => (l_step = r_step /\ bound)
          /\ arg = [op |-> op, a |-> dom[1], b |-> dom[2], l_step |-> l_step,
                    r_step |-> r_step, tol |-> tol, bound |-> bound]

\* Lines 467-470, 483-486, 492-495, 501-502 (122-127, 142-146, 153-157):
\* the branch taken and its first integral.  eval_integral and
\* eval_disc_integral raise NameError when JacobiPolynomials is not bound;
\* gq_modification_unbounded_composite has no branch for finite a and b
\* and reaches `return integral` with integral unassigned.
Start ==
    /\ pc = "call"
    /\ IF ~arg.bound
       THEN /\ ret' = [kind |-> "NameError"] /\ pc' = "done" /\ UNCHANGED heap
       ELSE IF arg.a = NegInf /\ arg.b = PosInf
       THEN \E v \in Estimates :
               /\ heap' = Integrated("start", -1, 1, v)
               /\ ret' = Walking(-1, 1, v, Num(Sentinel))
               /\ pc' = "left"
       ELSE IF arg.a = NegInf
       THEN \E v \in Estimates :
               /\ heap' = Integrated("start", arg.b - arg.l_step, arg.b, v)
               /\ ret' = Walking(arg.b - arg.l_step, arg.b, v, Num(Sentinel))
               /\ pc' = "left"
       ELSE IF arg.b = PosInf
       THEN \E v \in Estimates :
               /\ heap' = Integrated("start", arg.a, arg.a + arg.r_step, v)
               /\ ret' = Walking(arg.a, arg.a + arg.r_step, v, Num(Sentinel))
               /\ pc' = "right"
       ELSE IF arg.op = "gq_modification_unbounded_composite"
       THEN /\ ret' = [kind |-> "UnboundLocalError"] /\ pc' = "done" /\ UNCHANGED heap
       ELSE \E v \in Estimates :
               /\ heap' = Integrated("start", arg.a, arg.b, v)
               /\ ret' = [kind |-> "value", value |-> v]
               /\ pc' = "done"
    /\ UNCHANGED <<subVars, family, self_ab, driver_calls, arg>>

\* Lines 472-474 (129-132): r = l; l = l - l_step (l = r - step).
LeftStep ==
    /\ pc = "left"
    /\ KeepWalking(ret.Q, arg.tol)
    /\ Taken("left") < MaxWalk
    /\ \E v \in Estimates :
          LET r == ret.l
              l == IF arg.op = "gq_modification_unbounded_composite"
                   THEN r - arg.l_step ELSE ret.l - arg.l_step
          IN  /\ heap' = Integrated("left", l, r, v)
              /\ ret' = Walking(l, r, Plus(ret.s, v), v)
    /\ UNCHANGED <<pc, subVars, family, self_ab, driver_calls, arg>>

\* Lines 471 and 476-477 (128, 134-135): the left loop ends; on a doubly
\* infinite domain l, r and the increment are reset for the right walk,
\* otherwise s is returned (line 504).
LeftStop ==
    /\ pc = "left"
    /\ ~KeepWalking(ret.Q, arg.tol)
    /\ IF arg.b = PosInf
       THEN /\ ret' = Walking(-1, 1, ret.s, Num(Sentinel))
            /\ pc' = "right"
       ELSE /\ ret' = [kind |-> "value", value |-> ret.s]
            /\ pc' = "done"
    /\ UNCHANGED <<subVars, family, self_ab, driver_calls, arg, heap>>

\* Lines 479-481 (137-140): l = r; r = r + r_step (r = l + step).
RightStep ==
    /\ pc = "right"
    /\ KeepWalking(ret.Q, arg.tol)
    /\ Taken("right") < MaxWalk
    /\ \E v \in Estimates :
          LET l == ret.r
              r == IF arg.op = "gq_modification_unbounded_composite"
                   THEN l + arg.r_step ELSE ret.r + arg.r_step
          IN  /\ heap' = Integrated("right", l, r, v)
              /\ ret' = Walking(l, r, Plus(ret.s, v), v)
    /\ UNCHANGED <<pc, subVars, family, self_ab, driver_calls, arg>>

\* Lines 478 and 504 (136 and 164).
RightStop ==
    /\ pc = "right"
    /\ ~KeepWalking(ret.Q, arg.tol)
    /\ ret' = [kind |-> "value", value |-> ret.s]
    /\ pc' = "done"
    /\ UNCHANGED <<subVars, family, self_ab, driver_calls, arg, heap>>

NextWalk ==
    \/ Start
    \/ LeftStep
    \/ LeftStop
    \/ RightStep
    \/ RightStop

SpecWalk == InitWalk /\ [][NextWalk]_vars

WalkCall == arg.op \in WalkOps

\* The increments of one direction, in the order they were computed.
RECURSIVE Increments(_, _)
Increments(dir, k) ==
    IF k = 0 THEN <<>>
    ELSE IF heap[k].dir = dir THEN Append(Increments(dir, k - 1), heap[k])
    ELSE Increments(dir, k - 1)

RECURSIVE SumOfLog(_)
SumOfLog(k) == IF k = 0 THEN Num(0) ELSE Plus(SumOfLog(k - 1), heap[k].value)

Small(v) == ~v.nan /\ Abs(v.v) <= arg.tol

StopsAtFirstSmall(incs) ==
    /\ Len(incs) >= 1
    /\ Small(incs[Len(incs)].value)
    /\ \A k \in 1..(Len(incs) - 1) : ~Small(incs[k].value)

DoublyInfiniteReturn ==
    /\ WalkCall
    /\ pc = "done"
    /\ arg.bound
    /\ arg.a = NegInf /\ arg.b = PosInf

\* C22: on a doubly-infinite domain each walk starts from [-1,1], stops
\* exactly at its own first increment of magnitude at most tol, whatever
\* the other direction's increments are, and the value returned is the
\* reference integral plus every increment of both walks.
C22_WalksStopAtFirstSmallIncrement ==
    DoublyInfiniteReturn =>
        /\ ret.kind = "value"
        /\ heap[1] = [dir |-> "start", l |-> -1, r |-> 1, value |-> heap[1].value]
        /\ StopsAtFirstSmall(Increments("left", Len(heap)))
        /\ StopsAtFirstSmall(Increments("right", Len(heap)))
        /\ Increments("left", Len(heap))[1].r = -1
        /\ Increments("right", Len(heap))[1].l = 1
        /\ ret.value = SumOfLog(Len(heap))

\* What the code does: a walk takes no step at all when tol is 1. or
\* more, and otherwise stops at the first increment for which
\* `abs(Q) > tol` is false, a nan increment included.
StopsWhenNotFarther(incs) ==
    IF Sentinel > arg.tol
    THEN /\ Len(incs) >= 1
         /\ ~KeepWalking(incs[Len(incs)].value, arg.tol)
         /\ \A k \in 1..(Len(incs) - 1) : KeepWalking(incs[k].value, arg.tol)
    ELSE incs = <<>>

WalksStopWhenNotFarther ==
    DoublyInfiniteReturn =>
        /\ ret.kind = "value"
        /\ heap[1] = [dir |-> "start", l |-> -1, r |-> 1, value |-> heap[1].value]
        /\ StopsWhenNotFarther(Increments("left", Len(heap)))
        /\ StopsWhenNotFarther(Increments("right", Len(heap)))
        /\ ret.value = SumOfLog(Len(heap))

C22_WitnessNoStep ==
    /\ DoublyInfiniteReturn
    /\ arg.tol = Sentinel
    /\ ret.kind = "value"
    /\ Len(heap) = 1
    /\ heap[1].value = Num(3)
    /\ ret.value = Num(3)

C22_WitnessNaN ==
    /\ DoublyInfiniteReturn
    /\ arg.tol < Sentinel
    /\ ret.kind = "value"
    /\ ret.value = NaN
    /\ Taken("left") = 1
    /\ Taken("right") = 2

C22_WitnessIndependent ==
    /\ DoublyInfiniteReturn
    /\ arg.tol < Sentinel
    /\ arg.op = "eval_extend"
    /\ ret.kind = "value"
    /\ Taken("left") = 1
    /\ Taken("right") = 2
    /\ ret.value = Num(3 + 1 + 3 + 0)

Bounded == arg.a # NegInf /\ arg.b # PosInf

\* The interval a walk starts from.
StartsFrom ==
    IF arg.a = NegInf /\ arg.b = PosInf THEN <<-1, 1>>
    ELSE IF arg.a = NegInf THEN <<arg.b - arg.l_step, arg.b>>
    ELSE IF arg.b = PosInf THEN <<arg.a, arg.a + arg.r_step>>
    ELSE <<arg.a, arg.b>>

Abutting ==
    LET L == Increments("left", Len(heap))
        R == Increments("right", Len(heap))
    IN  /\ heap # <<>> => (heap[1].dir = "start" /\ <<heap[1].l, heap[1].r>> = StartsFrom)
        /\ \A k \in DOMAIN L :
              /\ L[k].r - L[k].l = arg.l_step
              /\ L[k].r = IF k = 1 THEN StartsFrom[1] ELSE L[k - 1].l
        /\ \A k \in DOMAIN R :
              /\ R[k].r - R[k].l = arg.r_step
              /\ R[k].l = IF k = 1 THEN StartsFrom[2] ELSE R[k - 1].r
        /\ Taken("start") <= 1
        /\ Bounded => (Taken("left") = 0 /\ Taken("right") = 0)
        /\ arg.a # NegInf => Taken("left") = 0
        /\ arg.b # PosInf => Taken("right") = 0

\* C23: the intervals integrated in one direction are contiguous, do not
\* overlap and have the width of the step, the first one abutting the
\* starting interval; for a bounded [a,b] exactly one integral, over
\* [a,b], is evaluated.
C23_ContiguousIntervals ==
    (WalkCall /\ arg.bound) =>
        /\ Abutting
        /\ (pc = "done" /\ Bounded) => (ret.kind = "value" /\ Len(heap) = 1)

\* What the code does: the same, except that
\* gq_modification_unbounded_composite evaluates nothing for a bounded
\* [a,b] and raises UnboundLocalError.
ContiguousOrUnbound ==
    (WalkCall /\ arg.bound) =>
        /\ Abutting
        /\ (pc = "done" /\ Bounded) =>
              IF arg.op = "gq_modification_unbounded_composite"
              THEN ret.kind = "UnboundLocalError" /\ heap = <<>>
              ELSE ret.kind = "value" /\ Len(heap) = 1

C23_WitnessUnbound ==
    /\ WalkCall
    /\ pc = "done"
    /\ Bounded
    /\ arg.op = "gq_modification_unbounded_composite"
    /\ ret.kind = "UnboundLocalError"
    /\ heap = <<>>

C23_WitnessLeftWalk ==
    /\ WalkCall
    /\ arg.op = "eval_extend"
    /\ arg.a = NegInf /\ arg.b = 0
    /\ arg.l_step = 2
    /\ pc = "done"
    /\ Len(heap) = 3
    /\ <<heap[1].l, heap[1].r>> = <<-2, 0>>
    /\ <<heap[2].l, heap[2].r>> = <<-4, -2>>
    /\ <<heap[3].l, heap[3].r>> = <<-6, -4>>

---------------------------------------------------------------------------
(* Signs of the linear modifications: composite.py lines 407-437 *)

RECURSIVE SignProduct(_)
SignProduct(roots) == IF roots = <<>> THEN 1 ELSE Head(roots)[2] * SignProduct(Tail(roots))

\* C24: measure_mod returns the product of the signs of the linear
\* modifications it applied (+1 for quadratic modifications or no root),
\* and an estimate of eval_integral is multiplied by the product of the
\* signs of all linear modifications applied for it, for zeros and for
\* addzeros alike.
C24_SignsMultiplied ==
    /\ (pc = "done" /\ arg.op = "measure_mod" /\ ret.kind = "table") =>
          ret.signs = IF arg.lin THEN SignProduct(arg.zeros) ELSE 1
    /\ (pc = "done" /\ arg.op = "eval_integral" /\ ret.kind = "estimate") =>
          ret.value = arg.leadingc * QuadratureSum * SignProduct(arg.addzeros)
                        * (IF arg.lin THEN SignProduct(arg.zeros) ELSE 1)

C24_Witness ==
    /\ pc = "done"
    /\ arg.op = "eval_integral"
    /\ arg.lin
    /\ arg.zeros = <<<<0, 1>>, <<0, 1>>>>
    /\ arg.addzeros = <<<<1, -1>>>>
    /\ arg.leadingc = 2
    /\ ret.kind = "estimate"
    /\ ret.value = -6

C24_WitnessMeasureMod ==
    /\ pc = "done"
    /\ arg.op = "measure_mod"
    /\ arg.lin
    /\ arg.zeros = <<<<1, -1>>, <<1, -1>>>>
    /\ ret.kind = "table"
    /\ ret.signs = 1

---------------------------------------------------------------------------
(* The loops that fill the table: composite.py lines 75-105, 168-267 and
   507-630.  The table is `heap`, a sequence of rows <<alpha, beta>>; row i
   of the code is heap[i + 1].  `ret` holds the loop index, the roots the
   step has computed and a log of the finished steps. *)

MaxSteps == 3

TableOps == {"Composite.recurrence", "Composite.stieltjes", "compute_ttr_bounded",
             "compute_ttr_unbounded", "compute_ttr_bounded_composite",
             "compute_ttr_unbounded_composite"}

OfComposite(op) == op \in {"Composite.recurrence", "Composite.stieltjes"}

WithRoots(op) == op \in {"Composite.recurrence", "compute_ttr_bounded_composite",
                         "compute_ttr_unbounded_composite"}

\* The estimates explored: the integral of the alpha step, and np.sqrt of
\* the integral of the beta step.
AlphaIntegrals == {-1, 0, 1}
BetaFactors == {1, 2}

Row(tab, i) == tab[i + 1]

WithRow(tab, i, row) == [k \in 1..Len(tab) |-> IF k = i + 1 THEN row ELSE tab[k]]

\* np.zeros((N+1, 2)) in the class, np.zeros([N, 2]) in the functions.
RowsOf(op, N) == IF OfComposite(op) THEN N + 1 ELSE N

\* gauss_quadrature_driver(ab, N)[0]: the eigenvalues of the N x N Jacobi
\* matrix with diagonal ab[1:N+1, 0] and off-diagonal ab[1:N, 1].  The
\* matrix stands for its eigenvalues; N = 0 is the empty rule.
Nodes(tab, N) ==
    [alphas |-> [k \in 1..N |-> Row(tab, k)[1]],
     betas  |-> [k \in 1..(N - 1) |-> Row(tab, k)[2]]]

\* A single root z, as the node of the 1 x 1 matrix (z).
OneRoot(z) == [alphas |-> <<z>>, betas |-> <<>>]

NoRoots == [alphas |-> <<>>, betas |-> <<>>]

\* `ab[i,0], ab[i,1] = ab[i-1,0], ab[i-1,1]`; Composite.stieltjes has no guess.
Guessed(op, tab, i) ==
    IF op = "Composite.stieltjes" THEN tab ELSE WithRow(tab, i, Row(tab, i - 1))

\* The roots computed before the alpha integral of step i.
AlphaRoots(op, tab, i) ==
    IF op = "Composite.recurrence"
    THEN IF i = 1 THEN <<NoRoots, OneRoot(Row(tab, 0)[1])>>
         ELSE <<Nodes(tab, i - 1), Nodes(tab, i)>>
    ELSE IF op = "Composite.stieltjes"
    THEN IF i = 1 THEN <<NoRoots>> ELSE <<Nodes(tab, i - 1)>>
    ELSE IF WithRoots(op) THEN <<Nodes(tab, i - 1), Nodes(tab, i)>>
    ELSE <<>>

\* The roots computed for the beta integral of step i.
BetaRoots(op, tab, i, before) ==
    IF op = "Composite.recurrence"
    THEN IF i = 1 THEN <<OneRoot(Row(tab, 1)[1])>> ELSE <<Nodes(tab, i)>>
    ELSE IF op = "Composite.stieltjes" THEN before
    ELSE IF WithRoots(op) THEN <<Nodes(tab, i)>>
    ELSE <<>>

\* The alpha a step stores from its integral s.
NewAlpha(op, tab, i, s) ==
    IF op = "Composite.recurrence" THEN Row(tab, i - 1)[1] + Row(tab, i - 1)[2] * s
    ELSE IF op = "Composite.stieltjes" THEN s
    ELSE Row(tab, i)[1] + Row(tab, i - 1)[2] * s

\* The beta a step stores, r being np.sqrt of its integral.
NewBeta(op, tab, i, r) ==
    IF op = "Composite.recurrence" THEN Row(tab, i - 1)[2] * r
    ELSE IF op = "Composite.stieltjes" THEN r
    ELSE Row(tab, i)[2] * r

RootsThenAlpha(op, tab, i, s, before) ==
    [tab   |-> WithRow(tab, i, <<NewAlpha(op, tab, i, s), Row(tab, i)[2]>>),
     roots |-> BetaRoots(op, tab, i, before)]

AlphaStoredInPreviousRow(op, tab, i, s, before) ==
    LET stored == WithRow(tab, i - 1, <<NewAlpha(op, tab, i, s), Row(tab, i - 1)[2]>>)
    IN  [tab |-> stored, roots |-> BetaRoots(op, stored, i, before)]

\* The alpha is stored, then the roots of the beta integral are computed.
AlphaThenRoots(op, tab, i, s, before) ==
    LET stored == WithRow(tab, i, <<NewAlpha(op, tab, i, s), Row(tab, i)[2]>>)
    IN  [tab |-> stored, roots |-> BetaRoots(op, stored, i, before)]

InitTable ==
    /\ pc = "call"
    /\ a = 0 /\ b = 1 /\ singularity_list = <<>> /\ subintervals = <<>>
    /\ family = "none" /\ self_ab = <<>> /\ driver_calls = 0
    /\ arg \in [op : TableOps, N : 0..MaxSteps, bound : BOOLEAN]
    /\ ret = [kind |-> "none", i |-> 0, roots |-> <<>>, log |-> <<>>]
    /\ heap = <<>>

\* The table is allocated and beta_0 stored.  The class needs the names
\* JacobiPolynomials and array_unique, which the module does not import;
\* the functions index row 0 of a table that has no row when N = 0.
Allocate ==
    /\ pc = "call"
    /\ IF OfComposite(arg.op) /\ ~arg.bound
       THEN /\ heap' = heap
            /\ ret' = [ret EXCEPT !.kind = "NameError"]
            /\ pc' = "done"
       ELSE IF RowsOf(arg.op, arg.N) = 0
       THEN /\ heap' = heap
            /\ ret' = [ret EXCEPT !.kind = "IndexError"]
            /\ pc' = "done"
       ELSE \E r \in BetaFactors :
            /\ heap' = [k \in 1..RowsOf(arg.op, arg.N) |-> IF k = 1 THEN <<0, r>> ELSE <<0, 0>>]
            /\ IF RowsOf(arg.op, arg.N) = 1
               THEN ret' = [ret EXCEPT !.kind = "table"] /\ pc' = "done"
               ELSE ret' = [ret EXCEPT !.kind = "running", !.i = 1] /\ pc' = "guess"
    /\ UNCHANGED <<subVars, family, self_ab, driver_calls, arg>>

Guess ==
    /\ pc = "guess"
    /\ LET tab == Guessed(arg.op, heap, ret.i)
       IN  /\ heap' = tab
           /\ ret' = [ret EXCEPT !.roots = AlphaRoots(arg.op, tab, ret.i)]
    /\ pc' = "alpha"
    /\ UNCHANGED <<subVars, family, self_ab, driver_calls, arg>>

StoreAlpha ==
    /\ pc = "alpha"
    /\ \E s \in AlphaIntegrals :
          LET r == AlphaThenRoots(arg.op, heap, ret.i, s, ret.roots)
          IN  /\ heap' = r.tab
              /\ ret' = [ret EXCEPT !.roots = r.roots,
                                    !.log = Append(@, [alpha_roots |-> ret.roots,
                                                       beta_roots |-> r.roots,
                                                       row |-> <<>>])]
    /\ pc' = "beta"
    /\ UNCHANGED <<subVars, family, self_ab, driver_calls, arg>>

StoreBeta ==
    /\ pc = "beta"
    /\ \E r \in BetaFactors :
          LET row == <<Row(heap, ret.i)[1], NewBeta(arg.op, heap, ret.i, r)>>
              last == ret.i = Len(heap) - 1
          IN  /\ heap' = WithRow(heap, ret.i, row)
              /\ ret' = [ret EXCEPT !.kind = IF last THEN "table" ELSE "running",
                                    !.i = IF last THEN @ ELSE @ + 1,
                                    !.roots = <<>>,
                                    !.log = [k \in 1..Len(@) |->
                                               IF k = Len(@) THEN [@[k] EXCEPT !.row = row]
                                               ELSE @[k]]]
              /\ pc' = IF last THEN "done" ELSE "guess"
    /\ UNCHANGED <<subVars, family, self_ab, driver_calls, arg>>

\* An integral raises (the weight, or gq_modification_unbounded_composite on
\* a bounded interval) and the call ends with the table as it is.
IntegralRaises ==
    /\ pc \in {"alpha", "beta"}
    /\ ret' = [ret EXCEPT !.kind = "raised"]
    /\ pc' = "done"
    /\ UNCHANGED <<subVars, family, self_ab, driver_calls, arg, heap>>

NextTable == Allocate \/ Guess \/ StoreAlpha \/ StoreBeta \/ IntegralRaises

SpecTable == InitTable /\ [][NextTable]_vars

InStep == pc \in {"guess", "alpha", "beta"}

OnlyRowWritten ==
    InStep => /\ Len(heap') = Len(heap)
              /\ \A k \in 0..(Len(heap) - 1) : k # ret.i => Row(heap', k) = Row(heap, k)

RowsBeyondZero ==
    InStep => \A k \in 0..(Len(heap) - 1) : k > ret.i => Row(heap, k) = <<0, 0>>

FinishedRowsKept ==
    \A k \in 1..Len(ret.log) : ret.log[k].row # <<>> => Row(heap, k) = ret.log[k].row

AlphaZero == Len(heap) > 0 => Row(heap, 0)[1] = 0

\* C25: the table only grows: the step of row i writes row i only, the
\* rows before it keep the values they had when their own step finished,
\* the rows beyond it are still zero during the step, and alpha_0 is 0
\* throughout.
C25_TableOnlyGrows ==
    /\ [][OnlyRowWritten]_vars
    /\ [](RowsBeyondZero /\ FinishedRowsKept /\ AlphaZero)

C25_Witness ==
    /\ pc = "beta"
    /\ arg.op = "Composite.recurrence"
    /\ arg.N = 3
    /\ ret.i = 2
    /\ heap = <<<<0, 2>>, <<2, 4>>, <<-2, 4>>, <<0, 0>>>>
    /\ ret.log[1].row = <<2, 4>>

C25_WitnessFunction ==
    /\ pc = "done"
    /\ arg.op = "compute_ttr_bounded_composite"
    /\ ret.kind = "table"
    /\ heap = <<<<0, 1>>, <<1, 2>>, <<-1, 2>>>>

RootsLoops == {"Composite.recurrence", "compute_ttr_bounded_composite"}

\* The table of step k before its alpha was stored: row k is the guess.
WithGuess(tab, k) == WithRow(tab, k, Row(tab, k - 1))

RootsOfCurrentTable ==
    /\ pc = "alpha" => ret.roots = <<Nodes(heap, ret.i - 1), Nodes(heap, ret.i)>>
    /\ pc = "beta" => /\ ret.roots = <<Nodes(heap, ret.i)>>
                      /\ Row(heap, ret.i)[2] = Row(heap, ret.i - 1)[2]

RootsOfFinishedSteps ==
    \A k \in 1..Len(ret.log) :
        /\ ret.log[k].beta_roots = <<Nodes(heap, k)>>
        /\ ret.log[k].row # <<>> =>
              ret.log[k].alpha_roots = <<Nodes(heap, k - 1), Nodes(WithGuess(heap, k), k)>>

\* C26: in Composite.recurrence and compute_ttr_bounded_composite the roots
\* of every step are the Gauss nodes of the current table, never those of
\* an earlier step, and the roots of the beta integral are the nodes of a
\* table that holds the step's final alpha, with the row's beta still the
\* guess copied from the previous row.
C26_RootsRecomputedAfterAlpha ==
    arg.op \in RootsLoops => RootsOfCurrentTable /\ RootsOfFinishedSteps

C26_Witness ==
    /\ pc = "beta"
    /\ arg.op = "Composite.recurrence"
    /\ ret.i = 2
    /\ heap = <<<<0, 2>>, <<2, 4>>, <<-2, 4>>, <<0, 0>>>>
    /\ ret.log[1].beta_roots = <<[alphas |-> <<2>>, betas |-> <<>>]>>
    /\ ret.roots = <<[alphas |-> <<2, -2>>, betas |-> <<4>>]>>

C26_WitnessFunction ==
    /\ pc = "done"
    /\ arg.op = "compute_ttr_bounded_composite"
    /\ ret.kind = "table"
    /\ heap = <<<<0, 1>>, <<1, 2>>, <<-1, 2>>>>
    /\ ret.log[2].alpha_roots = <<[alphas |-> <<1>>, betas |-> <<>>],
                                  [alphas |-> <<1, 1>>, betas |-> <<2>>]>>
    /\ ret.log[2].beta_roots = <<[alphas |-> <<1, -1>>, betas |-> <<2>>]>>

---------------------------------------------------------------------------
(* The break points of the class: composite.py lines 303-311, with the
   callers of lines 514, 532, 567, 587, 602, 620 and 638-642. *)

MaxPoint == 3
MaxRoots == 2

DemarPoints == 0..MaxPoint

DemarCallers == {"Composite.recurrence", "Composite.stieltjes", "Composite.eval_mom"}

SetsUpTo(S, n) == {T \in SUBSET S : Cardinality(T) <= n}

InitDemar ==
    /\ pc = "call"
    /\ a = 0 /\ b = 1 /\ singularity_list = <<>> /\ subintervals = <<>>
    /\ family = "none" /\ self_ab = <<>> /\ driver_calls = 0
    /\ \E lo \in DemarPoints, hi \in DemarPoints :
          /\ lo < hi
          /\ arg \in [op : DemarCallers, domain : {<<lo, hi>>},
                      sing : SetsUpTo(lo..hi, 1),
                      roots : SetsUpTo(DemarPoints, MaxRoots),
                      i : 0..1]
    /\ ret = [kind |-> "none", demar |-> <<>>]
    /\ heap = <<>>

Demarcated(zeros) ==
    /\ pc = "call"
    /\ ret' = [kind |-> "demar",
               demar |-> Sorted(find_demar(arg.domain[1], arg.domain[2], arg.sing, zeros))]
    /\ pc' = "done"
    /\ UNCHANGED <<subVars, family, self_ab, driver_calls, arg, heap>>

\* Lines 514 and 525-532: no zero for beta_0, the zero ab[0,0] = 0 in step
\* 1, the Gauss nodes r_pptilde in the later steps.
RecurrenceDemar ==
    /\ arg.op = "Composite.recurrence"
    /\ Demarcated(IF arg.i = 0 THEN {} ELSE IF arg.roots = {} THEN {0} ELSE arg.roots)

\* Lines 566-567 and 586-587: no zero for beta_0, then r_p and the added
\* zero 0.
StieltjesDemar ==
    /\ arg.op = "Composite.stieltjes"
    /\ Demarcated(IF arg.i = 0 THEN {} ELSE arg.roots \cup {0})

\* Lines 641-642: zeros = np.zeros(i,).
EvalMomDemar ==
    /\ arg.op = "Composite.eval_mom"
    /\ arg.roots = {}
    /\ Demarcated(IF arg.i = 0 THEN {} ELSE {0})

NextDemar == RecurrenceDemar \/ StieltjesDemar \/ EvalMomDemar

SpecDemar == InitDemar /\ [][NextDemar]_vars

\* C27: every break point returned by find_demar lies inside the closed
\* declared domain [domain[0], domain[1]].
C27_BreakPointsInsideDomain ==
    pc = "done" =>
        \A k \in 1..Len(ret.demar) :
            arg.domain[1] <= ret.demar[k] /\ ret.demar[k] <= arg.domain[2]

\* What find_demar does return: the ends of the domain, the singularities
\* and every zero it is given, sorted, wherever the zeros lie.
BreakPointsIncludeEveryZero ==
    pc = "done" =>
        /\ \A k \in 1..(Len(ret.demar) - 1) : ret.demar[k] < ret.demar[k + 1]
        /\ {arg.domain[1], arg.domain[2]} \cup arg.sing \subseteq Range(ret.demar)
        /\ (arg.i = 1 /\ arg.op = "Composite.stieltjes") => arg.roots \cup {0} \subseteq Range(ret.demar)
        /\ (arg.i = 1 /\ arg.op = "Composite.eval_mom") => 0 \in Range(ret.demar)

C27_WitnessOutside ==
    /\ pc = "done"
    /\ arg.op = "Composite.eval_mom"
    /\ arg.domain = <<1, 2>>
    /\ arg.sing = {}
    /\ arg.i = 1
    /\ ret.demar = <<0, 1, 2>>

---------------------------------------------------------------------------
(* The reference family of a sub-interval: composite.py lines 331-405 and
   687-724.  self.sing is a sequence of locations, self.sing_strength the
   sequence of their rows <<left exponent, right exponent>>. *)

MaxEnd == 2
MaxDeclared == 2

Strengths == {<<1, 2>>, <<2, 1>>}

\* `x in self.sing`
In(x, sing) == \E k \in 1..Len(sing) : sing[k] = x

\* self.sing_strength[np.where(self.sing == x)][0, col]: the row of the
\* first declared singularity located at x.
StrengthAt(sing, strength, x, col) ==
    strength[CHOOSE k \in 1..Len(sing) :
                 sing[k] = x /\ \A j \in 1..(k - 1) : sing[j] # x][col + 1]

\* JacobiPolynomials(alpha, beta, probability_measure = False), the table
\* used as it is on [-1,1] or affinely mapped onto [a,b], and the integrand.
Selected(alpha, beta, mapped, integrand, bound) ==
    IF bound
    THEN [kind |-> "family", alpha |-> alpha, beta |-> beta, mapped |-> mapped,
          integrand |-> integrand]
    ELSE [kind |-> "NameError", alpha |-> 0, beta |-> 0, mapped |-> FALSE,
          integrand |-> "none"]

find_jacobi(sing, strength, lo, hi, bound) ==
    IF In(lo, sing) /\ In(hi, sing)
    THEN LET a_r_expstr == StrengthAt(sing, strength, lo, 1)
             b_l_expstr == StrengthAt(sing, strength, hi, 0)
         IN  Selected(b_l_expstr, a_r_expstr, FALSE, "weight without both factors", bound)
    ELSE IF In(lo, sing)
    THEN LET a_r_expstr == StrengthAt(sing, strength, lo, 1)
         IN  Selected(0, a_r_expstr, FALSE, "weight without left factor", bound)
    ELSE IF In(hi, sing)
    THEN LET b_l_expstr == StrengthAt(sing, strength, hi, 0)
         IN  Selected(b_l_expstr, 0, FALSE, "weight without right factor", bound)
    ELSE Selected(0, 0, TRUE, "weight", bound)

find_disc_jacobiExponentsSwapped(sing, strength, lo, hi, bound) ==
    IF In(lo, sing) /\ In(hi, sing)
    THEN LET a_r_expstr == StrengthAt(sing, strength, lo, 1)
             b_l_expstr == StrengthAt(sing, strength, hi, 0)
         IN  Selected(a_r_expstr, b_l_expstr, FALSE, "weight without both factors", bound)
    ELSE IF In(lo, sing)
    THEN LET a_r_expstr == StrengthAt(sing, strength, lo, 1)
         IN  Selected(a_r_expstr, 0, FALSE, "weight without left factor", bound)
    ELSE IF In(hi, sing)
    THEN LET b_l_expstr == StrengthAt(sing, strength, hi, 0)
         IN  Selected(0, b_l_expstr, FALSE, "weight without right factor", bound)
    ELSE Selected(0, 0, TRUE, "weight", bound)

find_disc_jacobi(sing, strength, lo, hi, bound) ==
    IF In(lo, sing) /\ In(hi, sing)
    THEN LET a_r_expstr == StrengthAt(sing, strength, lo, 1)
             b_l_expstr == StrengthAt(sing, strength, hi, 0)
         IN  Selected(b_l_expstr, a_r_expstr, FALSE, "weight without both factors", bound)
    ELSE IF In(lo, sing)
    THEN LET a_r_expstr == StrengthAt(sing, strength, lo, 1)
         IN  Selected(0, a_r_expstr, FALSE, "weight without left factor", bound)
    ELSE IF In(hi, sing)
    THEN LET b_l_expstr == StrengthAt(sing, strength, hi, 0)
         IN  Selected(b_l_expstr, 0, FALSE, "weight without right factor", bound)
    ELSE Selected(0, 0, TRUE, "weight", bound)

InitCase ==
    /\ pc = "call"
    /\ a = 0 /\ b = 1 /\ singularity_list = <<>> /\ subintervals = <<>>
    /\ family = "none" /\ self_ab = <<>> /\ driver_calls = 0
    /\ \E sing \in SeqsUpTo(0..MaxEnd, MaxDeclared) :
          arg \in [op : {"find_jacobi", "find_disc_jacobi"},
                   a : 0..MaxEnd, b : 0..MaxEnd,
                   sing : {sing}, sing_strength : [1..Len(sing) -> Strengths],
                   bound : BOOLEAN]
    /\ arg.a < arg.b
    /\ ret = [kind |-> "none", alpha |-> 0, beta |-> 0, mapped |-> FALSE, integrand |-> "none"]
    /\ heap = <<>>

FindJacobi ==
    /\ pc = "call"
    /\ arg.op = "find_jacobi"
    /\ ret' = find_jacobi(arg.sing, arg.sing_strength, arg.a, arg.b, arg.bound)
    /\ pc' = "done"
    /\ UNCHANGED <<subVars, family, self_ab, driver_calls, arg, heap>>

FindDiscJacobi ==
    /\ pc = "call"
    /\ arg.op = "find_disc_jacobi"
    /\ ret' = find_disc_jacobi(arg.sing, arg.sing_strength, arg.a, arg.b, arg.bound)
    /\ pc' = "done"
    /\ UNCHANGED <<subVars, family, self_ab, driver_calls, arg, heap>>

NextCase == FindJacobi \/ FindDiscJacobi

SpecCase == InitCase /\ [][NextCase]_vars

\* What the other of the two functions selects for the same sub-interval.
OtherSelection ==
    IF arg.op = "find_jacobi"
    THEN find_disc_jacobi(arg.sing, arg.sing_strength, arg.a, arg.b, arg.bound)
    ELSE find_jacobi(arg.sing, arg.sing_strength, arg.a, arg.b, arg.bound)

\* The exponent declared on one side of x: column `col` of the row of the
\* singularity located exactly at x, 0 if x is not a declared singularity.
DeclaredExponent(x, col) ==
    IF \E k \in 1..Len(arg.sing) : arg.sing[k] = x
    THEN LET first == CHOOSE k \in 1..Len(arg.sing) :
                         arg.sing[k] = x /\ \A j \in 1..Len(arg.sing) : arg.sing[j] = x => k <= j
         IN  arg.sing_strength[first][col]
    ELSE 0

\* C28: find_jacobi and find_disc_jacobi select the same reference family
\* for every sub-interval [a,b]: alpha is the left exponent of the
\* singularity declared exactly at b, beta the right exponent of the one
\* declared exactly at a, 0 where the end is not a declared singularity, and
\* with neither the Legendre table is mapped onto [a,b] and the integrand is
\* the bare weight.
C28_SameFamilySelected ==
    pc = "done" =>
        /\ ret = OtherSelection
        /\ ret.kind = "family" =>
              /\ ret.alpha = DeclaredExponent(arg.b, 1)
              /\ ret.beta = DeclaredExponent(arg.a, 2)
              /\ ret.mapped <=> (\A k \in 1..Len(arg.sing) : arg.sing[k] \notin {arg.a, arg.b})
              /\ ret.mapped => ret.alpha = 0 /\ ret.beta = 0 /\ ret.integrand = "weight"

C28_Witness ==
    /\ pc = "done"
    /\ arg.op = "find_disc_jacobi"
    /\ arg.a = 0 /\ arg.b = 2
    /\ arg.sing = <<2, 0>>
    /\ arg.sing_strength = <<<<1, 2>>, <<1, 2>>>>
    /\ ret.kind = "family"
    /\ ret.alpha = 1 /\ ret.beta = 2

C28_WitnessLegendre ==
    /\ pc = "done"
    /\ arg.op = "find_jacobi"
    /\ arg.a = 0 /\ arg.b = 2
    /\ arg.sing = <<1>>
    /\ ret.kind = "family"
    /\ ret.mapped
    /\ ret.integrand = "weight"

=============================================================================
